---- MODULE Spec2Model ----
(***************************************************************************)
(* Model of the receipt processor's algorithm engines                      *)
(* (app/algorithms/search_algorithms.py, sort_algorithms.py,               *)
(* aggregation_algorithms.py) and of the search route that calls them.     *)
(*                                                                         *)
(* A receipt is a Python dict.  The caller's list is the variable          *)
(* receipts; a record is known by its position in that list, so a list of  *)
(* records returned by an operation is a sequence of positions (the        *)
(* returned list holds the same dict objects, not copies).                 *)
(* Python lists are 0-based, the sequences here are 1-based: every index   *)
(* of the source is translated by +1.                                      *)
(***************************************************************************)
EXTENDS Integers, Sequences, FiniteSets, TLC

VARIABLES
    receipts,   \* the dicts built for the request, in the order of creation
    caller,     \* the list the caller holds: the dicts by position in receipts
    pc,         \* where the caller is: "idle", "loaded", "returned"
    call,       \* the last engine call and its arguments
    outcome,    \* what that call returned or raised
    prev        \* the outcome of the call before, when a result is fed back

vars == <<receipts, caller, pc, call, outcome, prev>>

(***************************************************************************)
(* Bounds of the model.                                                    *)
(***************************************************************************)
MaxSortLen == 3

(***************************************************************************)
(* Python values.  t is the type: "num" (int/float), "str", "none" (None), *)
(* "meth" (a bound method of a dict, s is the address of the dict),        *)
(* "absent" (the key is not in the dict).                                  *)
(***************************************************************************)
\* A number is the fraction n/d in lowest terms (d = 1 for an integer).
Frac(k, m) == [t |-> "num", n |-> k, d |-> m, s |-> <<>>]
Num(k) == Frac(k, 1)
Str(chars) == [t |-> "str", n |-> 0, d |-> 1, s |-> chars]
None == [t |-> "none", n |-> 0, d |-> 1, s |-> <<>>]
Absent == [t |-> "absent", n |-> 0, d |-> 1, s |-> <<>>]
Method(address) == [t |-> "meth", n |-> 0, d |-> 1, s |-> address]
\* An int above the largest float, such as 10 ** 400: float() of it raises
\* OverflowError, which is neither a ValueError nor a TypeError.
Huge == [t |-> "huge", n |-> 0, d |-> 1, s |-> <<>>]
\* A keyword argument the caller did not pass.
Unset == [t |-> "unset", n |-> 0, d |-> 1, s |-> <<>>]

\* A receipt dict: the keys the engines read.  similarity_score is the key
\* that fuzzy search adds.  address is not a key: it is where the dict
\* object lies in memory, in hexadecimal, decided when the dict is created.
\* style is not a key either: it says what kind of object the record is.
Receipt(v, a, i) ==
    [id |-> Absent, vendor |-> v, amount |-> a, items |-> i,
     transaction_date |-> Absent, similarity_score |-> Absent,
     address |-> <<>>, style |-> "dict"]

\* The record as an object that carries the fields as attributes (a row of
\* the database, a ReceiptData): hasattr and getattr find every field, and
\* the object has no method get.
Object(receipt) == [receipt EXCEPT !.style = "object"]

\* receipt.get raises AttributeError for some record of the list.
without_get(recs, arr) ==
    \E k \in 1..Len(arr) : recs[arr[k]].style = "object"

Fields == {"vendor", "amount", "items"}

\* The names hasattr() finds on every dict object, among the field names.
DictAttributes == {"items"}

(***************************************************************************)
(* Characters and strings (sequences of one-character strings).            *)
(***************************************************************************)
\* The characters in code point order.
CodePoints ==
    <<" ", "(", "-", ".", "0", "1", "2", "3", "4", "5", "6", "7", "8", "9",
      "<", ">", "A", "B", "N", "a", "b", "c", "d", "e", "f", "h", "i", "j",
      "l", "m", "n", "o", "s", "t", "u", "x">>

ord(c) == CHOOSE k \in 1..Len(CodePoints) : CodePoints[k] = c

lower_char(c) ==
    CASE c = "A" -> "a"
      [] c = "B" -> "b"
      [] c = "N" -> "n"
      [] OTHER -> c

\* str.lower()
lower(s) == [k \in 1..Len(s) |-> lower_char(s[k])]

\* needle in hay
contains(hay, needle) ==
    \E k \in 0..(Len(hay) - Len(needle)) :
        \A m \in 1..Len(needle) : hay[k + m] = needle[m]

\* s1 < s2 on str: the first differing character decides, a proper prefix
\* is smaller.
str_lt(s1, s2) ==
    \/ \E k \in 1..Len(s2) :
          /\ k <= Len(s1)
          /\ \A m \in 1..(k - 1) : s1[m] = s2[m]
          /\ ord(s1[k]) < ord(s2[k])
    \/ /\ Len(s1) < Len(s2)
       /\ \A m \in 1..Len(s1) : s1[m] = s2[m]

(***************************************************************************)
(* Comparison of two Python values: numbers with numbers, text with text;  *)
(* every other pair raises TypeError.                                      *)
(***************************************************************************)
\* A comparison that takes any two values, whatever their types.
comparable_coerced(a, b) == TRUE

comparable(a, b) ==
    \/ a.t = "num" /\ b.t = "num"
    \/ a.t = "str" /\ b.t = "str"

\* a < b, for comparable a and b
lt(a, b) ==
    IF a.t = "num" THEN a.n * b.d < b.n * a.d ELSE str_lt(a.s, b.s)

\* a <= b, for comparable a and b
le(a, b) == a = b \/ lt(a, b)

\* a > b, for comparable a and b
gt(a, b) == lt(b, a)

\* receipt.get(field, '')
dict_get(receipt, field) ==
    IF receipt[field].t = "absent" THEN Str(<<>>) ELSE receipt[field]

\* receipt.get(key), for a key of any name
dict_get_none(receipt, key) ==
    IF key \notin DOMAIN receipt \/ receipt[key].t = "absent" THEN None
    ELSE receipt[key]

(***************************************************************************)
(* Sort engine (sort_algorithms.py).  A sort works on a list arr of        *)
(* positions into receipts and returns [err, arr]: err says a comparison   *)
(* raised TypeError, arr is the list at that point or the sorted list.     *)
(***************************************************************************)
Raised(arr) == [err |-> TRUE, arr |-> arr]
Returned(arr) == [err |-> FALSE, arr |-> arr]

\* arr[i], arr[j] = arr[j], arr[i]   (i, j 0-based)
swap(arr, i, j) ==
    [arr EXCEPT ![i + 1] = arr[j + 1], ![j + 1] = arr[i + 1]]

\* get_field_value of the four sorts: hasattr(receipt, field) is asked
\* first, and a dict has the attributes of the dict type.
get_field_value(receipt, field) ==
    IF receipt.style = "object" THEN receipt[field]
    ELSE IF field \in DictAttributes THEN Method(receipt.address)
    ELSE dict_get(receipt, field)

\* The for loop of partition, from j on; i and j are 0-based.
RECURSIVE partition_loop(_, _, _, _, _, _, _)
partition_loop(recs, arr, i, j, high, field, reverse) ==
    IF j >= high
    THEN [err |-> FALSE, arr |-> swap(arr, i + 1, high), pi |-> i + 1]
    ELSE LET v == get_field_value(recs[arr[j + 1]], field)
             pivot == get_field_value(recs[arr[high + 1]], field)
         IN  IF ~comparable(v, pivot)
             THEN [err |-> TRUE, arr |-> arr, pi |-> 0]
             ELSE IF le(v, pivot) # reverse
                  THEN partition_loop(recs, swap(arr, i + 1, j), i + 1, j + 1,
                                      high, field, reverse)
                  ELSE partition_loop(recs, arr, i, j + 1, high, field, reverse)

partition(recs, arr, low, high, field, reverse) ==
    partition_loop(recs, arr, low - 1, low, high, field, reverse)

RECURSIVE quicksort_recursive(_, _, _, _, _, _)
quicksort_recursive(recs, arr, low, high, field, reverse) ==
    IF low < high
    THEN LET right(l, pi) ==
                 IF l.err THEN l
                 ELSE quicksort_recursive(recs, l.arr, pi + 1, high, field,
                                          reverse)
             left(p) ==
                 IF p.err THEN Raised(p.arr)
                 ELSE right(quicksort_recursive(recs, p.arr, low, p.pi - 1,
                                                field, reverse), p.pi)
         IN  left(partition(recs, arr, low, high, field, reverse))
    ELSE Returned(arr)

_quicksort(recs, arr, field, reverse) ==
    quicksort_recursive(recs, arr, 0, Len(arr) - 1, field, reverse)

\* merge that takes the left element only when it is strictly smaller.
RECURSIVE merge_loop(_, _, _, _, _, _, _, _)
merge_loop_strict(recs, left, right, i, j, result, field, reverse) ==
    IF i < Len(left) /\ j < Len(right)
    THEN LET left_val == get_field_value(recs[left[i + 1]], field)
             right_val == get_field_value(recs[right[j + 1]], field)
         IN  IF ~comparable(left_val, right_val) THEN Raised(result)
             ELSE IF lt(left_val, right_val) # reverse
                  THEN merge_loop(recs, left, right, i + 1, j,
                                  Append(result, left[i + 1]), field, reverse)
                  ELSE merge_loop(recs, left, right, i, j + 1,
                                  Append(result, right[j + 1]), field, reverse)
    ELSE Returned(result \o SubSeq(left, i + 1, Len(left))
                         \o SubSeq(right, j + 1, Len(right)))

\* The while loop of merge and the two extends; i and j are 0-based.
merge_loop(recs, left, right, i, j, result, field, reverse) ==
    IF i < Len(left) /\ j < Len(right)
    THEN LET left_val == get_field_value(recs[left[i + 1]], field)
             right_val == get_field_value(recs[right[j + 1]], field)
         IN  IF ~comparable(left_val, right_val) THEN Raised(result)
             ELSE IF le(left_val, right_val) # reverse
                  THEN merge_loop(recs, left, right, i + 1, j,
                                  Append(result, left[i + 1]), field, reverse)
                  ELSE merge_loop(recs, left, right, i, j + 1,
                                  Append(result, right[j + 1]), field, reverse)
    ELSE Returned(result \o SubSeq(left, i + 1, Len(left))
                         \o SubSeq(right, j + 1, Len(right)))

merge(recs, left, right, field, reverse) ==
    merge_loop(recs, left, right, 0, 0, <<>>, field, reverse)

RECURSIVE mergesort_recursive(_, _, _, _)
mergesort_recursive(recs, arr, field, reverse) ==
    IF Len(arr) <= 1 THEN Returned(arr)
    ELSE LET mid == Len(arr) \div 2
             left == mergesort_recursive(recs, SubSeq(arr, 1, mid), field, reverse)
         IN  IF left.err THEN left
             ELSE LET right == mergesort_recursive(
                                   recs, SubSeq(arr, mid + 1, Len(arr)),
                                   field, reverse)
                  IN  IF right.err THEN right
                      ELSE merge(recs, left.arr, right.arr, field, reverse)

_mergesort(recs, arr, field, reverse) ==
    mergesort_recursive(recs, arr, field, reverse)

\* sorted(list, key=..., reverse=...): the keys are computed first (keys[x]
\* is the key of record x); the built-in sort is stable in both directions
\* (reverse keeps the input order of equal keys), modelled as a stable
\* insertion of each element in turn.
RECURSIVE stable_insert(_, _, _, _, _)
stable_insert(keys, sorted_arr, k, x, reverse) ==
    \* x goes behind every element that does not have to follow it
    IF k > Len(sorted_arr) THEN Append(sorted_arr, x)
    ELSE IF (IF reverse THEN gt(keys[x], keys[sorted_arr[k]])
                        ELSE lt(keys[x], keys[sorted_arr[k]]))
         THEN SubSeq(sorted_arr, 1, k - 1) \o <<x>>
              \o SubSeq(sorted_arr, k, Len(sorted_arr))
         ELSE stable_insert(keys, sorted_arr, k + 1, x, reverse)

RECURSIVE stable_sort(_, _, _, _)
stable_sort(keys, arr, k, reverse) ==
    IF k = 0 THEN <<>>
    ELSE stable_insert(keys, stable_sort(keys, arr, k - 1, reverse), 1,
                       arr[k], reverse)

\* A comparison sort of two or more keys ends only after it has compared
\* the neighbours of the final order, so sorted() raises TypeError as soon
\* as two of the keys cannot be compared.
sorted(keys, arr, reverse) ==
    IF Len(arr) >= 2
       /\ \E a, b \in 1..Len(arr) : a # b /\ ~comparable(keys[arr[a]], keys[arr[b]])
    THEN Raised(arr)
    ELSE Returned(stable_sort(keys, arr, Len(arr), reverse))

_timsort(recs, arr, field, reverse) ==
    sorted([x \in 1..Len(recs) |-> get_field_value(recs[x], field)], arr, reverse)

\* heapify that always builds a max-heap, whatever reverse says.
RECURSIVE heapify(_, _, _, _, _, _)
heapify_ignoring_reverse(recs, arr, n, i, field, reverse) ==
    LET left == 2 * i + 1
        right == 2 * i + 2
        val(k) == get_field_value(recs[arr[k + 1]], field)
        errL == left < n /\ ~comparable(val(left), val(i))
        largest1 == IF left < n /\ ~errL /\ gt(val(left), val(i))
                    THEN left ELSE i
        errR == right < n /\ ~comparable(val(right), val(largest1))
        largest == IF right < n /\ ~errR /\ gt(val(right), val(largest1))
                   THEN right ELSE largest1
        sift(l) == IF l # i
                   THEN heapify(recs, swap(arr, i, l), n, l, field, reverse)
                   ELSE Returned(arr)
    IN  IF errL \/ errR THEN Raised(arr) ELSE sift(largest)

\* heapify(arr, n, i), i 0-based.
heapify(recs, arr, n, i, field, reverse) ==
    LET left == 2 * i + 1
        right == 2 * i + 2
        val(k) == get_field_value(recs[arr[k + 1]], field)
        errL == left < n /\ ~comparable(val(left), val(i))
        largest1 == IF left < n /\ ~errL /\ (gt(val(left), val(i)) # reverse)
                    THEN left ELSE i
        errR == right < n /\ ~comparable(val(right), val(largest1))
        largest == IF right < n /\ ~errR
                      /\ (gt(val(right), val(largest1)) # reverse)
                   THEN right ELSE largest1
        sift(l) == IF l # i
                   THEN heapify(recs, swap(arr, i, l), n, l, field, reverse)
                   ELSE Returned(arr)
    IN  IF errL \/ errR THEN Raised(arr) ELSE sift(largest)

\* for i in range(n // 2 - 1, -1, -1): heapify(receipts_copy, n, i)
RECURSIVE build_heap(_, _, _, _, _, _)
build_heap(recs, arr, n, i, field, reverse) ==
    IF i < 0 THEN Returned(arr)
    ELSE LET next(h) == IF h.err THEN h
                        ELSE build_heap(recs, h.arr, n, i - 1, field, reverse)
         IN  next(heapify(recs, arr, n, i, field, reverse))

\* for i in range(n - 1, 0, -1): swap the root to position i, heapify(.., i, 0)
RECURSIVE extract_loop(_, _, _, _, _)
extract_loop(recs, arr, i, field, reverse) ==
    IF i <= 0 THEN Returned(arr)
    ELSE LET next(h) == IF h.err THEN h
                        ELSE extract_loop(recs, h.arr, i - 1, field, reverse)
         IN  next(heapify(recs, swap(arr, 0, i), i, 0, field, reverse))

_heapsort(recs, arr, field, reverse) ==
    LET n == Len(arr)
        extract(built) == IF built.err THEN built
                          ELSE extract_loop(recs, built.arr, n - 1, field,
                                            reverse)
    IN  extract(build_heap(recs, arr, n, (n \div 2) - 1, field, reverse))

\* self.algorithms of SortAlgorithms
SortRegistry == {"quicksort", "mergesort", "timsort", "heapsort"}

\* self.algorithms[algorithm](receipts, field, reverse)
sort_dispatch(recs, arr, field, algorithm, reverse) ==
    CASE algorithm = "quicksort" -> _quicksort(recs, arr, field, reverse)
      [] algorithm = "mergesort" -> _mergesort(recs, arr, field, reverse)
      [] algorithm = "timsort" -> _timsort(recs, arr, field, reverse)
      [] algorithm = "heapsort" -> _heapsort(recs, arr, field, reverse)

(***************************************************************************)
(* What a call gave: status "ok" with the returned list or value, or the   *)
(* exception it raised; impl is the implementation the dispatcher ran      *)
(* ("none" when it ran none).                                              *)
(***************************************************************************)
Outcome(status, list, impl) ==
    [status |-> status, list |-> list, impl |-> impl, value |-> None]
AggOutcome(status, value, impl) ==
    [status |-> status, list |-> <<>>, impl |-> impl, value |-> value]
NoOutcome == Outcome("none", <<>>, "none")

\* The list with quicksort working on receipts itself.
receipts_after_sort_in_place(recs, arr, field, algorithm, reverse) ==
    CASE algorithm = "quicksort" -> _quicksort(recs, arr, field, reverse).arr
      [] algorithm = "mergesort" -> arr
      [] algorithm = "timsort" -> arr
      [] algorithm = "heapsort" -> arr
      [] OTHER -> arr

\* The list that sort was given, after the call.  quicksort and heapsort
\* work on receipts.copy(), mergesort on the slices arr[:mid] and arr[mid:]
\* and on the new lists merge builds, timsort calls sorted(); an unknown
\* name raises before any of them runs.
receipts_after_sort(recs, arr, field, algorithm, reverse) ==
    CASE algorithm = "quicksort" -> arr
      [] algorithm = "mergesort" -> arr
      [] algorithm = "timsort" -> arr
      [] algorithm = "heapsort" -> arr
      [] OTHER -> arr

\* sort that falls back to timsort for a name it does not know.
sort_with_fallback(recs, arr, field, algorithm, reverse) ==
    LET known == IF algorithm \in SortRegistry THEN algorithm ELSE "timsort"
        result(r) == IF r.err THEN Outcome("TypeError", <<>>, known)
                     ELSE Outcome("ok", r.arr, known)
    IN  result(sort_dispatch(recs, arr, field, known, reverse))

\* SortAlgorithms.sort
sort(recs, arr, field, algorithm, reverse) ==
    IF algorithm \notin SortRegistry
    THEN Outcome("ValueError", <<>>, "none")
    ELSE LET result(r) == IF r.err THEN Outcome("TypeError", <<>>, algorithm)
                          ELSE Outcome("ok", r.arr, algorithm)
         IN  result(sort_dispatch(recs, arr, field, algorithm, reverse))

(***************************************************************************)
(* Conversions of Python values to text and to numbers.                    *)
(***************************************************************************)
DigitChars == <<"0", "1", "2", "3", "4", "5", "6", "7", "8", "9">>

\* str() of a non-negative int
RECURSIVE digits(_)
digits(k) ==
    IF k < 10 THEN <<DigitChars[k + 1]>>
    ELSE digits(k \div 10) \o <<DigitChars[(k % 10) + 1]>>

\* str() of the bound method items of the dict at address:
\* <built-in method items of dict object at 0x...>
MethodRepr(address) ==
    <<"<", "b", "u", "i", "l", "t", "-", "i", "n", " ", "m", "e", "t", "h",
      "o", "d", " ", "i", "t", "e", "m", "s", " ", "o", "f", " ", "d", "i",
      "c", "t", " ", "o", "b", "j", "e", "c", "t", " ", "a", "t", " ", "0",
      "x">> \o address \o <<">">>

\* str(value); the numbers that are turned into text are ints.
to_str(v) ==
    CASE v.t = "str" -> v.s
      [] v.t = "num" -> digits(v.n)
      [] v.t = "none" -> <<"N", "o", "n", "e">>
      [] v.t = "meth" -> MethodRepr(v.s)
      [] v.t = "huge" -> <<"1", "0", "0", "0", "0", "0", "0", "0", "0">>

\* str.strip() of blanks
RECURSIVE strip(_)
strip(s) ==
    IF s = <<>> THEN s
    ELSE IF Head(s) = " " THEN strip(Tail(s))
    ELSE IF s[Len(s)] = " " THEN strip(SubSeq(s, 1, Len(s) - 1))
    ELSE s

\* str.isdigit() for the decimal digits
AllDigits(s) == \A k \in 1..Len(s) : \E m \in 1..10 : DigitChars[m] = s[k]

\* int value of a non-empty string of digits
RECURSIVE digits_value(_)
digits_value(s) ==
    IF s = <<>> THEN 0
    ELSE 10 * digits_value(SubSeq(s, 1, Len(s) - 1))
         + ((CHOOSE k \in 1..10 : DigitChars[k] = s[Len(s)]) - 1)

\* float(value): [ok, val]; ok is FALSE where float() raises ValueError or
\* TypeError.  Text is a number when it is a string of digits with blanks
\* around it.  The callers ask first whether the value is Huge.
to_float(v) ==
    CASE v.t = "num" -> [ok |-> TRUE, val |-> v]
      [] v.t = "str" ->
           LET body == strip(v.s)
           IN  IF body # <<>> /\ AllDigits(body)
               THEN [ok |-> TRUE, val |-> Num(digits_value(body))]
               ELSE [ok |-> FALSE, val |-> None]
      [] OTHER -> [ok |-> FALSE, val |-> None]

(***************************************************************************)
(* Search engine (search_algorithms.py).  A strategy works on the list arr *)
(* of positions into recs and gives [status, list, recs]: status "ok" and  *)
(* the returned list, or the exception raised; recs is the list of dicts   *)
(* after the call (fuzzy search writes into the dicts).                    *)
(***************************************************************************)
Found(list, recs) == [status |-> "ok", list |-> list, recs |-> recs]
Failed(status, recs) == [status |-> status, list |-> <<>>, recs |-> recs]

\* The field value of linear search, lines 42-45: hasattr first, then
\* str(...).lower().
linear_field_value(receipt, field) ==
    lower(to_str(IF receipt.style = "object" THEN receipt[field]
                 ELSE IF field \in DictAttributes THEN Method(receipt.address)
                 ELSE dict_get(receipt, field)))

\* The loop with a test that lets an empty query match nothing.
RECURSIVE linear_loop(_, _, _, _, _, _)
linear_loop_nonempty(recs, arr, k, query_lower, field, results) ==
    IF k > Len(arr) THEN results
    ELSE linear_loop(recs, arr, k + 1, query_lower, field,
             IF query_lower # <<>>
                /\ contains(linear_field_value(recs[arr[k]], field), query_lower)
             THEN Append(results, arr[k]) ELSE results)

linear_loop(recs, arr, k, query_lower, field, results) ==
    IF k > Len(arr) THEN results
    ELSE linear_loop(recs, arr, k + 1, query_lower, field,
             IF contains(linear_field_value(recs[arr[k]], field), query_lower)
             THEN Append(results, arr[k]) ELSE results)

_linear_search(recs, arr, query, field) ==
    Found(linear_loop(recs, arr, 1, lower(query), field, <<>>), recs)

\* get_field_value of binary search: the text of the value, case kept.
binary_get_field_value(receipt, field) ==
    Str(to_str(IF receipt.style = "object" THEN receipt[field]
               ELSE IF field \in DictAttributes THEN Method(receipt.address)
               ELSE dict_get(receipt, field)))

\* while i >= 0 and query_lower in ...: results.append(arr[i]); i -= 1
RECURSIVE expand_left(_, _, _, _, _, _)
expand_left(recs, arr, i, query_lower, field, results) ==
    IF i >= 0
       /\ contains(lower(binary_get_field_value(recs[arr[i + 1]], field).s),
                   query_lower)
    THEN expand_left(recs, arr, i - 1, query_lower, field,
                     Append(results, arr[i + 1]))
    ELSE results

\* The walk to the right that steps over the record behind each match.
RECURSIVE expand_right(_, _, _, _, _, _)
expand_right_skipping(recs, arr, i, query_lower, field, results) ==
    IF i < Len(arr)
       /\ contains(lower(binary_get_field_value(recs[arr[i + 1]], field).s),
                   query_lower)
    THEN expand_right(recs, arr, i + 2, query_lower, field,
                      Append(results, arr[i + 1]))
    ELSE results

\* while i < len(arr) and query_lower in ...: results.append(arr[i]); i += 1
expand_right(recs, arr, i, query_lower, field, results) ==
    IF i < Len(arr)
       /\ contains(lower(binary_get_field_value(recs[arr[i + 1]], field).s),
                   query_lower)
    THEN expand_right(recs, arr, i + 1, query_lower, field,
                      Append(results, arr[i + 1]))
    ELSE results

\* left, right and mid are 0-based.
RECURSIVE binary_search_recursive(_, _, _, _, _, _)
binary_search_recursive(recs, arr, left, right, query_lower, field) ==
    IF left > right THEN <<>>
    ELSE LET mid == (left + right) \div 2
             mid_value == lower(binary_get_field_value(recs[arr[mid + 1]],
                                                       field).s)
         IN  IF contains(mid_value, query_lower)
             THEN expand_right(recs, arr, mid + 1, query_lower, field,
                      expand_left(recs, arr, mid - 1, query_lower, field,
                                  <<arr[mid + 1]>>))
             ELSE IF str_lt(query_lower, mid_value)
                  THEN binary_search_recursive(recs, arr, left, mid - 1,
                                               query_lower, field)
                  ELSE binary_search_recursive(recs, arr, mid + 1, right,
                                               query_lower, field)

\* sorted(receipts, key=get_field_value): the list that is bisected, in
\* the order of the texts as they are, capitals before small letters.
sorted_receipts(recs, arr, field) ==
    sorted([x \in 1..Len(recs) |-> binary_get_field_value(recs[x], field)],
           arr, FALSE).arr

_binary_search(recs, arr, query, field) ==
    LET bisect(ordered) ==
            Found(binary_search_recursive(recs, ordered, 0, Len(ordered) - 1,
                                          lower(query), field), recs)
    IN  bisect(sorted_receipts(recs, arr, field))

\* str.split(): the words between blanks
RECURSIVE split(_, _, _)
split(s, k, word) ==
    IF k > Len(s) THEN (IF word = <<>> THEN <<>> ELSE <<word>>)
    ELSE IF s[k] = " "
         THEN (IF word = <<>> THEN <<>> ELSE <<word>>) \o split(s, k + 1, <<>>)
         ELSE split(s, k + 1, Append(word, s[k]))

\* hash_index[query_hash]: a record is listed once when its whole value is
\* the query and once more for each of its words that is the query.  md5 is
\* taken to be free of collisions, so two hashes are equal when the texts
\* are.
RECURSIVE hash_bucket(_, _, _, _, _)
hash_bucket(recs, arr, k, query_lower, field) ==
    IF k > Len(arr) THEN <<>>
    ELSE LET field_value == lower(to_str(dict_get(recs[arr[k]], field)))
             words == split(field_value, 1, <<>>)
             hits == SelectSeq(words, LAMBDA w : w = query_lower)
         IN  (IF field_value = query_lower THEN <<arr[k]>> ELSE <<>>)
             \o [m \in 1..Len(hits) |-> arr[k]]
             \o hash_bucket(recs, arr, k + 1, query_lower, field)

\* The loop without the test on seen: every listing of a record is kept.
RECURSIVE unique_loop(_, _, _, _, _)
unique_loop_keeping_all(recs, results, k, seen, unique_results) ==
    IF k > Len(results) THEN unique_results
    ELSE LET id == dict_get_none(recs[results[k]], "id")
         IN  unique_loop(recs, results, k + 1, seen \cup {id},
                         Append(unique_results, results[k]))

\* The loop that removes duplicates by receipt.get('id').
unique_loop(recs, results, k, seen, unique_results) ==
    IF k > Len(results) THEN unique_results
    ELSE LET id == dict_get_none(recs[results[k]], "id")
         IN  IF id \notin seen
             THEN unique_loop(recs, results, k + 1, seen \cup {id},
                              Append(unique_results, results[k]))
             ELSE unique_loop(recs, results, k + 1, seen, unique_results)

_hash_search(recs, arr, query, field) ==
    IF without_get(recs, arr) THEN Failed("AttributeError", recs)
    ELSE
    Found(unique_loop(recs, hash_bucket(recs, arr, 1, lower(query), field),
                      1, {}, <<>>), recs)

RECURSIVE gcd(_, _)
gcd(a, b) == IF b = 0 THEN a ELSE gcd(b, a % b)

min2(a, b) == IF a <= b THEN a ELSE b
max2(a, b) == IF a >= b THEN a ELSE b

\* The inner loop of levenshtein_distance: current_row grows by one entry
\* for each c2 of s2; j is 0-based.
RECURSIVE current_row_loop(_, _, _, _, _)
\* The inner loop with a substitution at the cost of a deletion and an
\* insertion.
current_row_loop_without_substitution(previous_row, current_row, c1, s2, j) ==
    IF j >= Len(s2) THEN current_row
    ELSE LET insertions == previous_row[j + 2] + 1
             deletions == current_row[j + 1] + 1
             substitutions == previous_row[j + 1]
                                + (IF c1 # s2[j + 1] THEN 2 ELSE 0)
         IN  current_row_loop(previous_row,
                 Append(current_row,
                        min2(insertions, min2(deletions, substitutions))),
                 c1, s2, j + 1)

current_row_loop(previous_row, current_row, c1, s2, j) ==
    IF j >= Len(s2) THEN current_row
    ELSE LET insertions == previous_row[j + 2] + 1
             deletions == current_row[j + 1] + 1
             substitutions == previous_row[j + 1]
                                + (IF c1 # s2[j + 1] THEN 1 ELSE 0)
         IN  current_row_loop(previous_row,
                 Append(current_row,
                        min2(insertions, min2(deletions, substitutions))),
                 c1, s2, j + 1)

\* The outer loop over the characters of s1; i is 0-based.
RECURSIVE previous_row_loop(_, _, _, _)
previous_row_loop(previous_row, s1, s2, i) ==
    IF i >= Len(s1) THEN previous_row
    ELSE previous_row_loop(
             current_row_loop(previous_row, <<i + 1>>, s1[i + 1], s2, 0),
             s1, s2, i + 1)

RECURSIVE levenshtein_distance(_, _)
levenshtein_distance(s1, s2) ==
    IF Len(s1) < Len(s2) THEN levenshtein_distance(s2, s1)
    ELSE IF Len(s2) = 0 THEN Len(s1)
    ELSE LET last == previous_row_loop([j \in 1..(Len(s2) + 1) |-> j - 1],
                                       s1, s2, 0)
         IN  last[Len(last)]

\* similarity that divides by the length of the first text only.
similarity_by_first(s1, s2) ==
    LET distance == levenshtein_distance(lower(s1), lower(s2))
        len == Len(s1)
    IN  IF len = 0 \/ distance > len THEN Num(0)
        ELSE LET g == gcd(len - distance, len)
             IN  Frac((len - distance) \div g, len \div g)

\* 1 - distance / max_len, as a fraction in lowest terms
similarity(s1, s2) ==
    LET distance == levenshtein_distance(lower(s1), lower(s2))
        max_len == max2(Len(s1), Len(s2))
    IN  IF max_len = 0 THEN Num(1)
        ELSE LET g == gcd(max_len - distance, max_len)
             IN  Frac((max_len - distance) \div g, max_len \div g)

\* The default of the parameter threshold of _fuzzy_search.
DefaultThreshold == Frac(7, 10)

\* The loop with sim > threshold in place of sim >= threshold.
RECURSIVE fuzzy_loop(_, _, _, _, _, _)
fuzzy_loop_strict(state, arr, k, query_lower, field, threshold) ==
    IF k > Len(arr) THEN state
    ELSE IF state.recs[arr[k]].style = "object"
    THEN Failed("AttributeError", state.recs)
    ELSE LET field_value == lower(to_str(dict_get(state.recs[arr[k]], field)))
             score(sim) ==
                 IF ~comparable(sim, threshold)
                 THEN Failed("TypeError", state.recs)
                 ELSE IF gt(sim, threshold)
                      THEN fuzzy_loop(
                               Found(Append(state.list, arr[k]),
                                     [state.recs EXCEPT
                                        ![arr[k]].similarity_score = sim]),
                               arr, k + 1, query_lower, field, threshold)
                      ELSE fuzzy_loop(state, arr, k + 1, query_lower, field,
                                      threshold)
         IN  score(similarity(query_lower, field_value))

\* The for loop of _fuzzy_search from position k on: state is [status,
\* list, recs].  sim >= threshold raises TypeError when threshold is not a
\* number.
fuzzy_loop(state, arr, k, query_lower, field, threshold) ==
    IF k > Len(arr) THEN state
    ELSE IF state.recs[arr[k]].style = "object"
    THEN Failed("AttributeError", state.recs)
    ELSE LET field_value == lower(to_str(dict_get(state.recs[arr[k]], field)))
             score(sim) ==
                 IF ~comparable(sim, threshold)
                 THEN Failed("TypeError", state.recs)
                 ELSE IF ~lt(sim, threshold)
                      THEN fuzzy_loop(
                               Found(Append(state.list, arr[k]),
                                     [state.recs EXCEPT
                                        ![arr[k]].similarity_score = sim]),
                               arr, k + 1, query_lower, field, threshold)
                      ELSE fuzzy_loop(state, arr, k + 1, query_lower, field,
                                      threshold)
         IN  score(similarity(query_lower, field_value))

\* x.get('similarity_score', 0)
score_key(receipt) ==
    IF receipt.similarity_score.t = "absent" THEN Num(0)
    ELSE receipt.similarity_score

\* The search with results ordered by the scores the records carried when
\* the call began.
_fuzzy_search_by_left_score(recs, arr, query, field, threshold) ==
    LET sort_results(looped) ==
            IF looped.status # "ok" THEN looped
            ELSE Found(sorted([x \in 1..Len(recs) |-> score_key(recs[x])],
                              looped.list, TRUE).arr,
                       looped.recs)
    IN  sort_results(fuzzy_loop(Found(<<>>, recs), arr, 1, lower(query), field,
                                threshold))

_fuzzy_search(recs, arr, query, field, threshold) ==
    LET \* results.sort(key=..., reverse=True)
        sort_results(looped) ==
            IF looped.status # "ok" THEN looped
            ELSE Found(sorted([x \in 1..Len(recs) |->
                                  score_key(looped.recs[x])],
                              looped.list, TRUE).arr,
                       looped.recs)
    IN  sort_results(fuzzy_loop(Found(<<>>, recs), arr, 1, lower(query), field,
                                threshold))

\* The loop with an exclusive upper bound.
RECURSIVE range_loop(_, _, _, _, _, _, _)
range_loop_exclusive(recs, arr, k, min_value, max_value, field, results) ==
    IF k > Len(arr) THEN Found(results, recs)
    ELSE IF recs[arr[k]].style = "object" THEN Failed("AttributeError", recs)
    ELSE IF dict_get_none(recs[arr[k]], field).t = "huge"
    THEN Failed("OverflowError", recs)
    ELSE LET field_value == dict_get_none(recs[arr[k]], field)
             continue(found) ==
                 range_loop(recs, arr, k + 1, min_value, max_value, field,
                            found)
             check(numeric) ==
                 IF field_value.t = "none" \/ ~numeric.ok
                 THEN continue(results)
                 ELSE IF min_value.t # "none"
                         /\ ~comparable(numeric.val, min_value)
                      THEN Failed("TypeError", recs)
                 ELSE IF min_value.t # "none" /\ lt(numeric.val, min_value)
                      THEN continue(results)
                 ELSE IF max_value.t # "none"
                         /\ ~comparable(numeric.val, max_value)
                      THEN Failed("TypeError", recs)
                 ELSE IF max_value.t # "none" /\ ~lt(numeric.val, max_value)
                      THEN continue(results)
                 ELSE continue(Append(results, arr[k]))
         IN  check(to_float(field_value))

\* The for loop of _range_search from position k on.  A comparison of the
\* number with a bound that is not a number raises TypeError.
range_loop(recs, arr, k, min_value, max_value, field, results) ==
    IF k > Len(arr) THEN Found(results, recs)
    ELSE IF recs[arr[k]].style = "object" THEN Failed("AttributeError", recs)
    ELSE IF dict_get_none(recs[arr[k]], field).t = "huge"
    THEN Failed("OverflowError", recs)
    ELSE LET field_value == dict_get_none(recs[arr[k]], field)
             continue(found) ==
                 range_loop(recs, arr, k + 1, min_value, max_value, field,
                            found)
             check(numeric) ==
                 IF field_value.t = "none" \/ ~numeric.ok
                 THEN continue(results)
                 ELSE IF min_value.t # "none"
                         /\ ~comparable(numeric.val, min_value)
                      THEN Failed("TypeError", recs)
                 ELSE IF min_value.t # "none" /\ lt(numeric.val, min_value)
                      THEN continue(results)
                 ELSE IF max_value.t # "none"
                         /\ ~comparable(numeric.val, max_value)
                      THEN Failed("TypeError", recs)
                 ELSE IF max_value.t # "none" /\ gt(numeric.val, max_value)
                      THEN continue(results)
                 ELSE continue(Append(results, arr[k]))
         IN  check(to_float(field_value))

_range_search(recs, arr, min_value, max_value, field) ==
    range_loop(recs, arr, 1, min_value, max_value, field, <<>>)

\* re.compile(pattern, re.IGNORECASE) succeeds.  The patterns are made of
\* literal characters, "." (any character) and "(", which opens a group
\* that nothing closes: re.error.
regex_valid(pattern) == \A k \in 1..Len(pattern) : pattern[k] # "("

\* regex.search(text) finds a match somewhere in text.
regex_search(pattern, text) ==
    \E k \in 0..(Len(text) - Len(pattern)) :
        \A m \in 1..Len(pattern) :
            \/ pattern[m] = "."
            \/ lower_char(pattern[m]) = lower_char(text[k + m])

\* The parser of re.compile calls itself for every group that is opened
\* inside another.  Past this nesting the interpreter's stack is used up
\* and re.compile raises RecursionError, which is not a re.error, before it
\* can find that no group is closed (the nesting is 494 under the default
\* recursion limit of 1000; the model scales it down).
RecursionDepth == 2

_pattern_search(recs, arr, pattern, field) ==
    IF Cardinality({k \in 1..Len(pattern) : pattern[k] = "("}) > RecursionDepth
    THEN Failed("RecursionError", recs)
    ELSE IF ~regex_valid(pattern) THEN Found(<<>>, recs)
    ELSE IF without_get(recs, arr) THEN Failed("AttributeError", recs)
    ELSE Found(SelectSeq(arr, LAMBDA x :
                   regex_search(pattern, to_str(dict_get(recs[x], field)))),
               recs)

\* self.algorithms of SearchAlgorithms
SearchRegistry == {"linear", "binary", "hash", "fuzzy", "range", "pattern"}

\* **kwargs of search: each keyword is a value or Unset.
Kwargs(threshold, min_value, max_value, pattern) ==
    [threshold |-> threshold, min_value |-> min_value,
     max_value |-> max_value, pattern |-> pattern]
NoKwargs == Kwargs(Unset, Unset, Unset, Unset)

\* A field name as text.
FieldText(field) ==
    CASE field = "vendor" -> <<"v", "e", "n", "d", "o", "r">>
      [] field = "amount" -> <<"a", "m", "o", "u", "n", "t">>
      [] field = "items" -> <<"i", "t", "e", "m", "s">>
      [] field = "transaction_date" ->
           <<"t", "r", "a", "n", "s", "a", "c", "t", "i", "o", "n", "_", "d",
             "a", "t", "e">>

\* self.algorithms[algorithm](receipts, query, field, **kwargs): query and
\* field are bound to the second and third parameter of the strategy, the
\* keywords by name; a keyword the strategy does not have, or one that names
\* a parameter already bound by position, raises TypeError.
search_dispatch(recs, arr, query, algorithm, field, kwargs) ==
    LET only(names) ==
            \A kw \in {"threshold", "min_value", "max_value", "pattern"} \ names :
                kwargs[kw] = Unset
    IN  CASE algorithm = "linear" ->
               IF only({}) THEN _linear_search(recs, arr, query, field)
               ELSE Failed("TypeError", recs)
          [] algorithm = "binary" ->
               IF only({}) THEN _binary_search(recs, arr, query, field)
               ELSE Failed("TypeError", recs)
          [] algorithm = "hash" ->
               IF only({}) THEN _hash_search(recs, arr, query, field)
               ELSE Failed("TypeError", recs)
          [] algorithm = "fuzzy" ->
               IF only({"threshold"})
               THEN _fuzzy_search(recs, arr, query, field,
                        IF kwargs.threshold = Unset THEN DefaultThreshold
                        ELSE kwargs.threshold)
               ELSE Failed("TypeError", recs)
          [] algorithm = "range" ->
               \* _range_search(receipts, min_value, max_value, field='amount')
               IF only({})
               THEN _range_search(recs, arr, Str(query), Str(FieldText(field)),
                                  "amount")
               ELSE Failed("TypeError", recs)
          [] algorithm = "pattern" ->
               \* _pattern_search(receipts, pattern, field)
               IF only({}) THEN _pattern_search(recs, arr, query, field)
               ELSE Failed("TypeError", recs)

\* SearchAlgorithms.search: [status, list, recs, impl]
search(recs, arr, query, algorithm, field, kwargs) ==
    IF algorithm \notin SearchRegistry
    THEN [status |-> "ValueError", list |-> <<>>, recs |-> recs, impl |-> "none"]
    ELSE LET result(r) == [status |-> r.status, list |-> r.list,
                           recs |-> r.recs, impl |-> algorithm]
         IN  result(search_dispatch(recs, arr, query, algorithm, field, kwargs))

(***************************************************************************)
(* The calls.  call records the last call and its arguments; input is the  *)
(* list that was passed (positions into receipts).                         *)
(***************************************************************************)
Call(api, name, field, reverse, input, query, kwargs) ==
    [api |-> api, name |-> name, field |-> field, reverse |-> reverse,
     input |-> input, query |-> query, kwargs |-> kwargs]
NoCall == Call("none", "none", "none", FALSE, <<>>, <<>>, NoKwargs)

\* The caller's list: every record once, in the order of receipts.
AllOf(recs) == [k \in 1..Len(recs) |-> k]

\* All lists of at most n elements of S.
ListsUpTo(S, n) == UNION {[1..k -> S] : k \in 0..n}

(***************************************************************************)
(* Arithmetic on numbers.  A float is taken as the exact fraction.         *)
(***************************************************************************)
\* n/d in lowest terms, for d > 0
Reduced(n, d) ==
    LET g == gcd(IF n < 0 THEN -n ELSE n, d) IN Frac(n \div g, d \div g)

add(a, b) == Reduced(a.n * b.d + b.n * a.d, a.d * b.d)
sub(a, b) == Reduced(a.n * b.d - b.n * a.d, a.d * b.d)
mul(a, b) == Reduced(a.n * b.n, a.d * b.d)
\* a / b, for b # 0
div(a, b) ==
    IF b.n < 0 THEN Reduced(-(a.n * b.d), a.d * (-b.n))
    ELSE Reduced(a.n * b.d, a.d * b.n)

\* int(x): the fraction cut towards zero
int(x) == IF x.n < 0 THEN -((-x.n) \div x.d) ELSE x.n \div x.d

\* sum(values)
RECURSIVE sum(_)
sum(values) ==
    IF values = <<>> THEN Num(0) ELSE add(Head(values), sum(Tail(values)))

\* sorted(values) of numbers or of texts that can be compared
sorted_values(values) ==
    LET order == sorted(values, AllOf(values), FALSE).arr
    IN  [k \in 1..Len(values) |-> values[order[k]]]

(***************************************************************************)
(* Aggregation engine (aggregation_algorithms.py).  A function gives       *)
(* [status, value]: status "ok" and the value returned, or the exception.  *)
(***************************************************************************)
Computed(value) == [status |-> "ok", value |-> value]
Threw(status) == [status |-> status, value |-> None]

\* A Python list and a Python dict as a result.
List(items) == [t |-> "list", items |-> items]
Dict(items) == [t |-> "dict", items |-> items]

\* The exception that ends the loop of sum, mean, median, variance and
\* std_dev from position k on, "none" when the loop runs to its end:
\* receipt.get of an object raises AttributeError and float() of a Huge
\* raises OverflowError, which the except clause does not name.
RECURSIVE loop_error(_, _, _, _)
loop_error(recs, arr, k, field) ==
    IF k > Len(arr) THEN "none"
    ELSE IF recs[arr[k]].style = "object" THEN "AttributeError"
    ELSE IF dict_get_none(recs[arr[k]], field).t = "huge" THEN "OverflowError"
    ELSE loop_error(recs, arr, k + 1, field)

\* The loop of sum, mean, median, variance and std_dev: float(value) of
\* every entry that is not None and that float() accepts.
RECURSIVE numeric_values(_, _, _, _)
numeric_values(recs, arr, k, field) ==
    IF k > Len(arr) THEN <<>>
    ELSE LET value == dict_get_none(recs[arr[k]], field)
             number == to_float(value)
         IN  (IF value.t # "none" /\ number.ok THEN <<number.val>> ELSE <<>>)
             \o numeric_values(recs, arr, k + 1, field)

_sum(recs, arr, field) ==
    IF loop_error(recs, arr, 1, field) # "none"
    THEN Threw(loop_error(recs, arr, 1, field)) ELSE
    LET values == numeric_values(recs, arr, 1, field)
    IN  Computed(IF values # <<>> THEN sum(values) ELSE Num(0))

\* statistics.mean
mean(values) == div(sum(values), Num(Len(values)))

_mean(recs, arr, field) ==
    IF loop_error(recs, arr, 1, field) # "none"
    THEN Threw(loop_error(recs, arr, 1, field)) ELSE
    LET values == numeric_values(recs, arr, 1, field)
    IN  Computed(IF values # <<>> THEN mean(values) ELSE Num(0))

\* statistics.median
median(values) ==
    LET n == Len(values)
        i == n \div 2
        middle(data) == IF n % 2 = 1 THEN data[i + 1]
                        ELSE div(add(data[i], data[i + 1]), Num(2))
    IN  middle(sorted_values(values))

_median(recs, arr, field) ==
    IF loop_error(recs, arr, 1, field) # "none"
    THEN Threw(loop_error(recs, arr, 1, field)) ELSE
    LET values == numeric_values(recs, arr, 1, field)
    IN  Computed(IF values # <<>> THEN median(values) ELSE Num(0))

\* The loop of mode and histogram: str(value) of every entry that is not
\* None.
RECURSIVE text_values(_, _, _, _)
text_values(recs, arr, k, field) ==
    IF k > Len(arr) THEN <<>>
    ELSE LET value == dict_get_none(recs[arr[k]], field)
         IN  (IF value.t # "none" THEN <<Str(to_str(value))>> ELSE <<>>)
             \o text_values(recs, arr, k + 1, field)

\* The keys of a Counter or of a dict filled from values, in the order in
\* which they were first inserted.
RECURSIVE distinct(_, _, _)
distinct(values, k, seen) ==
    IF k > Len(values) THEN <<>>
    ELSE IF values[k] \in seen THEN distinct(values, k + 1, seen)
    ELSE <<values[k]>> \o distinct(values, k + 1, seen \cup {values[k]})

\* Counter(values).items(): [value, count] for each distinct value
Counter(values) ==
    LET keys == distinct(values, 1, {})
    IN  [k \in 1..Len(keys) |->
            [value |-> keys[k],
             count |-> Cardinality({m \in 1..Len(values) : values[m] = keys[k]})]]

\* mode that returns the first of the most common values only.
_mode_first(recs, arr, field) ==
    IF without_get(recs, arr) THEN Threw("AttributeError") ELSE
    LET max_count(counter) ==
            CHOOSE c \in {counter[k].count : k \in 1..Len(counter)} :
                \A k \in 1..Len(counter) : counter[k].count <= c
        modes(most) == Computed(List(<<most[1].value>>))
        top(counter, highest) ==
            modes(SelectSeq(counter, LAMBDA item : item.count = highest))
        counted(counter) == top(counter, max_count(counter))
        of(values) == IF values = <<>> THEN Computed(List(<<>>))
                      ELSE counted(Counter(values))
    IN  of(text_values(recs, arr, 1, field))

_mode(recs, arr, field) ==
    IF without_get(recs, arr) THEN Threw("AttributeError") ELSE
    LET max_count(counter) ==
            CHOOSE c \in {counter[k].count : k \in 1..Len(counter)} :
                \A k \in 1..Len(counter) : counter[k].count <= c
        modes(most) == Computed(List([k \in 1..Len(most) |-> most[k].value]))
        top(counter, highest) ==
            modes(SelectSeq(counter, LAMBDA item : item.count = highest))
        counted(counter) == top(counter, max_count(counter))
        of(values) == IF values = <<>> THEN Computed(List(<<>>))
                      ELSE counted(Counter(values))
    IN  of(text_values(recs, arr, 1, field))

\* statistics.variance: the sample variance
variance(values) ==
    LET m == mean(values)
        squares == [k \in 1..Len(values) |->
                       mul(sub(values[k], m), sub(values[k], m))]
    IN  div(sum(squares), Num(Len(values) - 1))

_variance(recs, arr, field) ==
    IF loop_error(recs, arr, 1, field) # "none"
    THEN Threw(loop_error(recs, arr, 1, field)) ELSE
    LET values == numeric_values(recs, arr, 1, field)
    IN  Computed(IF Len(values) > 1 THEN variance(values) ELSE Num(0))

\* math.sqrt(x), kept as the root of the fraction
Sqrt(x) == [t |-> "sqrt", n |-> x.n, d |-> x.d, s |-> <<>>]

_std_deviation(recs, arr, field) ==
    IF loop_error(recs, arr, 1, field) # "none"
    THEN Threw(loop_error(recs, arr, 1, field)) ELSE
    LET values == numeric_values(recs, arr, 1, field)
    IN  Computed(IF Len(values) > 1 THEN Sqrt(variance(values)) ELSE Num(0))

\* The default of the parameter bins of _histogram.
DefaultBins == 10

\* The dict that _histogram returns; bin_size and frequency_distribution are
\* Absent in the forms that do not have the key.
Histogram(bins, counts, min_value, max_value, bin_size, frequency_distribution) ==
    [t |-> "histogram", bins |-> bins, counts |-> counts,
     min_value |-> min_value, max_value |-> max_value, bin_size |-> bin_size,
     frequency_distribution |-> frequency_distribution]

\* list[:n]
slice_to(list, n) ==
    IF n >= 0 THEN SubSeq(list, 1, min2(n, Len(list)))
    ELSE SubSeq(list, 1, max2(Len(list) + n, 0))

\* The numeric branch with the index int((value - min_val) / bin_size) as
\* it is, so that the maximum has no bin.
numeric_histogram_unclamped(numeric, min_val, max_val, bins) ==
    IF bins = 0 THEN Threw("ZeroDivisionError")
    ELSE IF bins < 0 THEN Threw("IndexError")
    ELSE LET bin_size == div(sub(max_val, min_val), Num(bins))
             bin_index(value) ==
                 int(div(sub(value, min_val), bin_size))
             bin_counts ==
                 [i \in 1..bins |->
                     Cardinality({k \in 1..Len(numeric) :
                                     bin_index(numeric[k]) = i - 1})]
             bin_edges ==
                 [i \in 1..(bins + 1) |-> add(min_val, mul(Num(i - 1), bin_size))]
         IN  Computed(Histogram(bin_edges, bin_counts, min_val, max_val,
                                bin_size, Absent))

\* The numeric branch of _histogram, for min_val < max_val.
numeric_histogram(numeric, min_val, max_val, bins) ==
    IF bins = 0 THEN Threw("ZeroDivisionError")
    ELSE IF bins < 0 THEN Threw("IndexError")
    ELSE LET bin_size == div(sub(max_val, min_val), Num(bins))
             bin_index(value) ==
                 min2(int(div(sub(value, min_val), bin_size)), bins - 1)
             bin_counts ==
                 [i \in 1..bins |->
                     Cardinality({k \in 1..Len(numeric) :
                                     bin_index(numeric[k]) = i - 1})]
             bin_edges ==
                 [i \in 1..(bins + 1) |-> add(min_val, mul(Num(i - 1), bin_size))]
         IN  Computed(Histogram(bin_edges, bin_counts, min_val, max_val,
                                bin_size, Absent))

\* The categorical branch of _histogram.
categorical_histogram(values, bins) ==
    LET order(counter) ==
            sorted([k \in 1..Len(counter) |-> Num(counter[k].count)],
                   AllOf(counter), TRUE).arr
        histogram(sorted_items, top_items) ==
            Computed(Histogram([k \in 1..Len(top_items) |-> top_items[k].value],
                               [k \in 1..Len(top_items) |-> top_items[k].count],
                               Num(0), Num(Len(sorted_items)), Absent,
                               Dict(sorted_items)))
        most_common(sorted_items) ==
            histogram(sorted_items, slice_to(sorted_items, bins))
        ordered(counter, by) ==
            most_common([k \in 1..Len(counter) |-> counter[by[k]]])
        counted(counter) == ordered(counter, order(counter))
    IN  counted(Counter(values))

\* _histogram with the single bucket counting the records.
_histogram_counting_records(recs, arr, field, bins) ==
    IF without_get(recs, arr) THEN Threw("AttributeError") ELSE
    LET accepted(values) ==
            SelectSeq([k \in 1..Len(values) |-> to_float(values[k])],
                      LAMBDA c : c.ok)
        spread(numeric_vals, min_val, max_val) ==
            IF min_val = max_val
            THEN Computed(Histogram(<<min_val>>, <<Len(arr)>>,
                                    min_val, max_val, Absent, Absent))
            ELSE numeric_histogram(numeric_vals, min_val, max_val, bins)
        numeric(numeric_vals, ordered) ==
            spread(numeric_vals, ordered[1], ordered[Len(ordered)])
        histogram(values, numeric_vals) ==
            IF values = <<>>
            THEN Computed(Histogram(<<>>, <<>>, Num(0), Num(0), Absent, Absent))
            ELSE IF numeric_vals # <<>>
                 THEN numeric(numeric_vals, sorted_values(numeric_vals))
                 ELSE categorical_histogram(values, bins)
        floats(values, valid) ==
            histogram(values,
                      [k \in 1..Len(valid) |-> valid[k].val])
        of(values) == floats(values, accepted(values))
    IN  of(text_values(recs, arr, 1, field))

_histogram(recs, arr, field, bins) ==
    IF without_get(recs, arr) THEN Threw("AttributeError") ELSE
    LET accepted(values) ==
            SelectSeq([k \in 1..Len(values) |-> to_float(values[k])],
                      LAMBDA c : c.ok)
        spread(numeric_vals, min_val, max_val) ==
            IF min_val = max_val
            THEN Computed(Histogram(<<min_val>>, <<Len(numeric_vals)>>,
                                    min_val, max_val, Absent, Absent))
            ELSE numeric_histogram(numeric_vals, min_val, max_val, bins)
        numeric(numeric_vals, ordered) ==
            spread(numeric_vals, ordered[1], ordered[Len(ordered)])
        histogram(values, numeric_vals) ==
            IF values = <<>>
            THEN Computed(Histogram(<<>>, <<>>, Num(0), Num(0), Absent, Absent))
            ELSE IF numeric_vals # <<>>
                 THEN numeric(numeric_vals, sorted_values(numeric_vals))
                 ELSE categorical_histogram(values, bins)
        floats(values, valid) ==
            histogram(values,
                      [k \in 1..Len(valid) |-> valid[k].val])
        of(values) == floats(values, accepted(values))
    IN  of(text_values(recs, arr, 1, field))

(***************************************************************************)
(* Dates: datetime.strptime(text, '%Y-%m-%d'), strftime, weekday.          *)
(***************************************************************************)
Date(y, m, d) == [year |-> y, month |-> m, day |-> d]

\* The parts of s between the "-" characters.
RECURSIVE split_dash(_, _, _)
split_dash(s, k, part) ==
    IF k > Len(s) THEN <<part>>
    ELSE IF s[k] = "-" THEN <<part>> \o split_dash(s, k + 1, <<>>)
    ELSE split_dash(s, k + 1, Append(part, s[k]))

is_leap(y) == (y % 4 = 0 /\ y % 100 # 0) \/ y % 400 = 0

days_in_month(y, m) ==
    CASE m \in {4, 6, 9, 11} -> 30
      [] m = 2 -> IF is_leap(y) THEN 29 ELSE 28
      [] OTHER -> 31

\* strptime(text, '%Y-%m-%d'): [ok, date]; ok is FALSE where it raises
\* ValueError.  %Y is four digits, %m and %d are one or two digits (the day
\* may have a blank for its first digit), and the date must exist.
strptime(s) ==
    LET parts == split_dash(s, 1, <<>>)
        wrong == [ok |-> FALSE, date |-> Date(0, 0, 0)]
    IN  IF Len(parts) # 3 THEN wrong
        ELSE LET Y == parts[1]
                 m == parts[2]
                 d == IF Len(parts[3]) = 2 /\ parts[3][1] = " "
                      THEN Tail(parts[3]) ELSE parts[3]
             IN  IF Len(Y) = 4 /\ AllDigits(Y)
                    /\ Len(m) \in {1, 2} /\ AllDigits(m)
                    /\ Len(d) \in {1, 2} /\ AllDigits(d)
                    /\ digits_value(Y) >= 1
                    /\ digits_value(m) \in 1..12
                    /\ digits_value(d) >= 1
                    /\ digits_value(d)
                         <= days_in_month(digits_value(Y), digits_value(m))
                 THEN [ok |-> TRUE,
                       date |-> Date(digits_value(Y), digits_value(m),
                                     digits_value(d))]
                 ELSE wrong

\* The days of the months of year y before month m.
RECURSIVE days_before_month(_, _)
days_before_month(y, m) ==
    IF m <= 1 THEN 0
    ELSE days_before_month(y, m - 1) + days_in_month(y, m - 1)

\* date.weekday(): 0 for Monday; toordinal is 1 for 0001-01-01, a Monday
weekday(date) ==
    LET y == date.year - 1
        toordinal == y * 365 + (y \div 4) - (y \div 100) + (y \div 400)
                     + days_before_month(date.year, date.month) + date.day
    IN  (toordinal + 6) % 7

\* date_obj - timedelta(days=days), for days < 7 and a date after year 1
minus_days(date, days) ==
    IF date.day - days >= 1 THEN [date EXCEPT !.day = date.day - days]
    ELSE LET y == IF date.month = 1 THEN date.year - 1 ELSE date.year
             m == IF date.month = 1 THEN 12 ELSE date.month - 1
         IN  Date(y, m, days_in_month(y, m) + date.day - days)

\* The digits of k, with zeros in front up to width.
RECURSIVE zero_padded(_, _)
zero_padded(text, width) ==
    IF Len(text) >= width THEN text ELSE zero_padded(<<"0">> \o text, width)

\* strftime('%Y-%m-%d')
strftime_day(date) ==
    zero_padded(digits(date.year), 4) \o <<"-">>
    \o zero_padded(digits(date.month), 2) \o <<"-">>
    \o zero_padded(digits(date.day), 2)

\* strftime('%Y-%m')
strftime_month(date) ==
    zero_padded(digits(date.year), 4) \o <<"-">>
    \o zero_padded(digits(date.month), 2)

\* The defaults of the parameters time_field and window.
DefaultTimeField == "transaction_date"
DefaultWindow == "monthly"

\* The time key with the week named by the day itself.
time_key_of_day(date_obj, window) ==
    CASE window = "daily" -> strftime_day(date_obj)
      [] window = "weekly" -> strftime_day(date_obj)
      [] window = "monthly" -> strftime_month(date_obj)
      [] OTHER -> strftime_day(date_obj)

\* The time key of a date for the window.
time_key(date_obj, window) ==
    CASE window = "daily" -> strftime_day(date_obj)
      [] window = "weekly" ->
           strftime_day(minus_days(date_obj, weekday(date_obj)))
      [] window = "monthly" -> strftime_month(date_obj)
      [] OTHER -> strftime_day(date_obj)

\* The for loop of _time_series_aggregation from position k on: grouped is
\* the list of the appended values with their time keys.  A time value that
\* is neither None nor text has no strftime: AttributeError, which no
\* except clause catches.
RECURSIVE time_series_loop(_, _, _, _, _, _, _)
time_series_loop(recs, arr, k, field, time_field, window, grouped) ==
    IF k > Len(arr) THEN Computed(grouped)
    ELSE LET receipt == recs[arr[k]]
             time_value == dict_get_none(receipt, time_field)
             continue(g) ==
                 time_series_loop(recs, arr, k + 1, field, time_field, window, g)
         IN  IF time_value.t = "none" THEN continue(grouped)
             ELSE IF time_value.t # "str" THEN Threw("AttributeError")
             ELSE LET value == dict_get_none(receipt, field)
                      group(key, number) ==
                          IF field = time_field
                          THEN continue(Append(grouped,
                                   [time_key |-> key, value |-> Num(1)]))
                          ELSE IF value.t = "huge"
                               THEN Threw("OverflowError")
                          ELSE IF number.ok
                               THEN continue(Append(grouped,
                                        [time_key |-> key,
                                         value |-> number.val]))
                               ELSE continue(grouped)
                      dated(parsed) ==
                          IF ~parsed.ok \/ value.t = "none"
                          THEN continue(grouped)
                          ELSE group(time_key(parsed.date, window),
                                     to_float(value))
                  IN  dated(strptime(time_value.s))

\* One entry of the series: the aggregations of the values of a time key.
time_series_entry(period, values) ==
    LET entry(ordered) ==
            [time_period |-> period, count |-> Len(values), sum |-> sum(values),
             mean |-> mean(values), min |-> ordered[1],
             max |-> ordered[Len(ordered)]]
    IN  entry(sorted_values(values))

_time_series_aggregation(recs, arr, field, time_field, window) ==
    IF without_get(recs, arr) THEN Threw("AttributeError") ELSE
    LET values_of(hits) == [k \in 1..Len(hits) |-> hits[k].value]
        entry(grouped, key) ==
            time_series_entry(key,
                values_of(SelectSeq(grouped, LAMBDA g : g.time_key = key.s)))
        series(grouped, keys) ==
            Computed(List([k \in 1..Len(keys) |-> entry(grouped, keys[k])]))
        result(grouped) ==
            series(grouped,
                   sorted_values(
                       distinct([k \in 1..Len(grouped) |->
                                    Str(grouped[k].time_key)], 1, {})))
        finish(looped) ==
            IF looped.status # "ok" THEN looped ELSE result(looped.value)
    IN  finish(time_series_loop(recs, arr, 1, field, time_field, window, <<>>))

\* self.functions of AggregationAlgorithms
AggregationFunctions ==
    {"sum", "mean", "median", "mode", "variance", "std_dev", "histogram",
     "time_series"}

\* **kwargs of aggregate: bins is a number or Unset; time_field and window
\* are names, NotPassed when the caller leaves them out.
NotPassed == "<not passed>"
AggKwargs(bins, time_field, window) ==
    [bins |-> bins, time_field |-> time_field, window |-> window]
NoAggKwargs == AggKwargs(Unset, NotPassed, NotPassed)

\* self.functions[function](receipts, field, **kwargs): a keyword that the
\* function does not have raises TypeError.
aggregate_dispatch(recs, arr, function, field, kwargs) ==
    LET passed == (IF kwargs.bins # Unset THEN {"bins"} ELSE {})
                  \cup (IF kwargs.time_field # NotPassed THEN {"time_field"} ELSE {})
                  \cup (IF kwargs.window # NotPassed THEN {"window"} ELSE {})
    IN  CASE function = "sum" ->
               IF passed = {} THEN _sum(recs, arr, field) ELSE Threw("TypeError")
          [] function = "mean" ->
               IF passed = {} THEN _mean(recs, arr, field) ELSE Threw("TypeError")
          [] function = "median" ->
               IF passed = {} THEN _median(recs, arr, field)
               ELSE Threw("TypeError")
          [] function = "mode" ->
               IF passed = {} THEN _mode(recs, arr, field) ELSE Threw("TypeError")
          [] function = "variance" ->
               IF passed = {} THEN _variance(recs, arr, field)
               ELSE Threw("TypeError")
          [] function = "std_dev" ->
               IF passed = {} THEN _std_deviation(recs, arr, field)
               ELSE Threw("TypeError")
          [] function = "histogram" ->
               IF passed \subseteq {"bins"}
               THEN _histogram(recs, arr, field,
                        IF kwargs.bins = Unset THEN DefaultBins
                        ELSE kwargs.bins.n)
               ELSE Threw("TypeError")
          [] function = "time_series" ->
               IF passed \subseteq {"time_field", "window"}
               THEN _time_series_aggregation(recs, arr, field,
                        IF kwargs.time_field = NotPassed THEN DefaultTimeField
                        ELSE kwargs.time_field,
                        IF kwargs.window = NotPassed THEN DefaultWindow
                        ELSE kwargs.window)
               ELSE Threw("TypeError")

\* AggregationAlgorithms.aggregate
aggregate(recs, arr, function, field, kwargs) ==
    IF function \notin AggregationFunctions
    THEN AggOutcome("ValueError", None, "none")
    ELSE LET result(r) == AggOutcome(r.status, r.value, function)
         IN  result(aggregate_dispatch(recs, arr, function, field, kwargs))

(***************************************************************************)
(* Specification of the sort engine.                                       *)
(***************************************************************************)
\* The entry under 'items' repeats the amount, so that the same orderings
\* are asked for under a key that is also an attribute name of dict.
SortReceipts ==
    {Receipt(v, a, a) : v \in {Str(<<"a">>), Str(<<"B">>), Str(<<"a", "b">>)},
                        a \in {Num(1), Num(2), Absent}}

\* After construction of the engines: no request is being served.
Init ==
    /\ receipts = <<>>
    /\ caller = <<>>
    /\ pc = "idle"
    /\ call = NoCall
    /\ outcome = NoOutcome
    /\ prev = NoOutcome

\* receipt_dict['id'] = receipt.id: the primary key, here the position.
WithIds(list) == [k \in 1..Len(list) |-> [list[k] EXCEPT !.id = Num(k)]]

\* Addresses of dict objects.
AddressPool ==
    <<(<<"7", "f", "1", "0">>), <<"7", "f", "a", "b">>, <<"7", "e", "c", "0">>,
      <<"7", "f", "b", "a">>, <<"7", "f", "2", "0">>>>

\* The dicts lie at the addresses of the pool, in the order of the list.
\* For the operations that do not turn a bound method into text (nothing
\* else reads the address).
InOrder == {SubSeq(AddressPool, 1, n) : n \in 0..Len(AddressPool)}

\* The dicts lie at any addresses, no two at the same one.
AnyWhere ==
    {a \in ListsUpTo({AddressPool[k] : k \in 1..Len(AddressPool)},
                     Len(AddressPool)) :
        \A i, j \in 1..Len(a) : i # j => a[i] # a[j]}

\* The dicts of list, created at addresses.
At(list, addresses) ==
    [k \in 1..Len(list) |-> [list[k] EXCEPT !.address = addresses[k]]]

\* The caller materialises the records of the request as a list of dicts.
Load(lists, places) ==
    /\ pc = "idle"
    /\ \E list \in lists :
          \E addresses \in {a \in places : Len(a) = Len(list)} :
              /\ receipts' = At(WithIds(list), addresses)
              /\ caller' = [k \in 1..Len(list) |-> k]
    /\ pc' = "loaded"
    /\ UNCHANGED <<call, outcome, prev>>

\* The response is produced and the records of the request are discarded.
Respond ==
    /\ pc = "returned"
    /\ receipts' = <<>>
    /\ caller' = <<>>
    /\ pc' = "idle"
    /\ call' = NoCall
    /\ outcome' = NoOutcome
    /\ prev' = NoOutcome

\* sort(receipts, field, algorithm, reverse) on the caller's list
Sort(algorithm, field, reverse) ==
    /\ pc = "loaded"
    /\ call' = Call("sort", algorithm, field, reverse, AllOf(receipts), <<>>,
                    NoKwargs)
    /\ outcome' = sort(receipts, AllOf(receipts), field, algorithm, reverse)
    /\ caller' = receipts_after_sort(receipts, caller, field, algorithm,
                                      reverse)
    /\ prev' = NoOutcome
    /\ pc' = "returned"
    /\ UNCHANGED receipts

\* sort(sort(receipts, f, a, d), f, a, d): the list the last sort returned
\* is sorted again with the same arguments.
Resort ==
    /\ pc = "returned"
    /\ call.api = "sort"
    /\ outcome.status = "ok"
    /\ call' = [call EXCEPT !.input = outcome.list]
    /\ outcome' = sort(receipts, outcome.list, call.field, call.name,
                       call.reverse)
    /\ prev' = outcome
    /\ UNCHANGED <<receipts, caller, pc>>

NextSort ==
    \/ Load(ListsUpTo(SortReceipts, MaxSortLen), InOrder)
    \/ \E algorithm \in SortRegistry \cup {"bubblesort"}, field \in Fields,
          reverse \in BOOLEAN :
          Sort(algorithm, field, reverse)
    \/ Resort
    \/ Respond

SpecSort == Init /\ [][NextSort]_vars

(***************************************************************************)
(* Calls of the search engine.                                             *)
(***************************************************************************)
\* search(receipts, query, algorithm, field, **kwargs) on the caller's list
Search(algorithm, query, field, kwargs) ==
    /\ pc = "loaded"
    /\ LET return(r) == /\ outcome' = Outcome(r.status, r.list, r.impl)
                         /\ receipts' = r.recs
       IN  return(search(receipts, AllOf(receipts), query, algorithm, field,
                         kwargs))
    /\ call' = Call("search", algorithm, field, FALSE, AllOf(receipts), query,
                    kwargs)
    /\ prev' = NoOutcome
    /\ pc' = "returned"
    \* every strategy appends to a list of its own (binary search to what
    \* sorted() built) and nothing assigns to receipts
    /\ UNCHANGED caller

\* The queries: short texts in both cases, one that is found in str(12) and
\* one that is found in str(None).
Queries ==
    {<<>>, <<"a">>, <<"B">>, <<"a", "b">>, <<"b", "A">>, <<"b", "b">>,
     <<"1">>, <<"N">>, <<"a", " ", "b">>}
\* The patterns: the queries, patterns with a wildcard, patterns that do
\* not compile, and one that opens more groups than the parser can nest.
Patterns ==
    Queries \cup {<<".">>, <<"a", ".">>, <<".", "B">>, <<"(">>, <<"(", "a">>,
                  [k \in 1..(RecursionDepth + 1) |-> "("]}

(***************************************************************************)
(* Specification of the text searches: linear, binary, hash and pattern.   *)
(***************************************************************************)
MaxTextRecs == 2
TextReceipts ==
    {Receipt(v, Num(12), Absent) :
        v \in {Str(<<>>), Str(<<"b">>), Str(<<"A", "b">>), Str(<<"b", "a">>),
               Str(<<"a", " ", "b">>), Str(<<"b", " ", "B">>), None, Absent}}
\* SearchQuery.field accepts these names (of the fields modelled).
RouteFields == {"vendor", "amount"}

NextText ==
    \/ Load(ListsUpTo(TextReceipts, MaxTextRecs), InOrder)
    \/ \E algorithm \in {"linear", "binary", "hash"}, query \in Queries,
          field \in RouteFields :
          Search(algorithm, query, field, NoKwargs)
    \/ \E pattern \in Patterns, field \in RouteFields :
          Search("pattern", pattern, field, NoKwargs)
    \/ Respond

SpecText == Init /\ [][NextText]_vars

(***************************************************************************)
(* Specification of the searches on a field whose name is also the name of *)
(* an attribute of dict.                                                   *)
(***************************************************************************)
MaxShadowRecs == 2
ShadowReceipts ==
    {Receipt(Str(<<"a">>), Num(12), i) :
        i \in {Str(<<"a", "b">>), Str(<<"N">>), Str(<<>>)}}
\* Queries found in the text of every bound method, in the text of none, in
\* the address of some dicts, and the empty query.
ShadowQueries == {<<>>, <<"N">>, <<"a", "b">>, <<"1">>, <<"b", "b">>}

NextShadow ==
    \/ Load(ListsUpTo(ShadowReceipts, MaxShadowRecs), AnyWhere)
    \/ \E algorithm \in {"linear", "binary", "hash", "pattern"},
          query \in ShadowQueries :
          Search(algorithm, query, "items", NoKwargs)
    \/ Respond

SpecShadow == Init /\ [][NextShadow]_vars

(***************************************************************************)
(* The search route (api/routes/search.py).                                *)
(***************************************************************************)
\* float(x) if x is not None else None, for min_value and max_value
float_or_none(v) ==
    IF v.t = "none" THEN [ok |-> TRUE, val |-> None] ELSE to_float(v)

\* The body of search_receipts after the records are loaded: the branch on
\* search_query.algorithm.  params holds search_query.threshold, min_value,
\* max_value and pattern, each None when the request leaves it out.
route_search(recs, query, algorithm, field, params) ==
    IF algorithm = "range"
    THEN LET result(r) == [status |-> r.status, list |-> r.list,
                           recs |-> r.recs, impl |-> "range"]
             ranged(min_value, max_value) ==
                 IF ~min_value.ok \/ ~max_value.ok
                 THEN [status |-> "ValueError", list |-> <<>>, recs |-> recs,
                       impl |-> "none"]
                 ELSE result(_range_search(recs, AllOf(recs), min_value.val,
                                           max_value.val, field))
         IN  ranged(float_or_none(params.min_value),
                    float_or_none(params.max_value))
    ELSE search(recs, AllOf(recs), query, algorithm, field,
                CASE algorithm = "pattern" ->
                       Kwargs(Unset, Unset, Unset, params.pattern)
                  [] algorithm = "fuzzy" ->
                       Kwargs(params.threshold, Unset, Unset, Unset)
                  [] OTHER -> NoKwargs)

\* search_receipts: a POST to /search.  Every exception becomes a response
\* with status 500.
RouteSearch(algorithm, query, field, params) ==
    /\ pc = "loaded"
    /\ LET respond(r) ==
               /\ outcome' = IF r.status = "ok"
                             THEN Outcome("ok", r.list, r.impl)
                             ELSE Outcome("HTTP500", <<>>, r.impl)
               /\ receipts' = r.recs
       IN  respond(route_search(receipts, query, algorithm, field, params))
    /\ call' = Call("route", algorithm, field, FALSE, AllOf(receipts), query,
                    params)
    /\ prev' = NoOutcome
    /\ pc' = "returned"
    /\ UNCHANGED caller

(***************************************************************************)
(* Specification of fuzzy search.                                          *)
(***************************************************************************)
MaxFuzzyRecs == 3
FuzzyReceipts ==
    {Receipt(v, Num(12), v) :
        v \in {Str(<<>>), Str(<<"a">>), Str(<<"A", "b">>), Str(<<"b", "a">>),
               Str(<<"b", "a", "b">>)}}
FuzzyQueries ==
    {<<>>, <<"a">>, <<"B">>, <<"a", "b">>, <<"B", "a">>, <<"a", "b", "a">>}
Thresholds == {Num(0), Frac(1, 2), Frac(7, 10), Num(1)}

NextFuzzy ==
    \/ Load(ListsUpTo(FuzzyReceipts, MaxFuzzyRecs), InOrder)
    \/ \E query \in FuzzyQueries, threshold \in Thresholds \cup {Unset} :
          Search("fuzzy", query, "vendor", Kwargs(threshold, Unset, Unset, Unset))
    \/ \E query \in FuzzyQueries, threshold \in {None, Frac(7, 10)} :
          RouteSearch("fuzzy", query, "vendor",
                      Kwargs(threshold, None, None, None))
    \/ Respond

SpecFuzzy == Init /\ [][NextFuzzy]_vars

(***************************************************************************)
(* Specification of range search.                                          *)
(***************************************************************************)
MaxRangeRecs == 2
RangeReceipts ==
    {Receipt(Str(<<"a">>), a, a) :
        a \in {Num(5), Num(10), Num(15), Str(<<"1", "0">>), Str(<<" ", "5">>),
               Str(<<"a">>), None, Absent}}
\* search_query.min_value and max_value: a float, a text, or left out.
RangeBounds == {None, Num(5), Num(10), Num(12), Str(<<"1", "5">>), Str(<<"a">>)}

NextRange ==
    \/ Load(ListsUpTo(RangeReceipts, MaxRangeRecs), InOrder)
    \/ \E min_value \in RangeBounds, max_value \in RangeBounds,
          field \in RouteFields :
          RouteSearch("range", <<>>, field,
                      Kwargs(None, min_value, max_value, None))
    \* search(receipts, query, 'range', field, min_value=.., max_value=..)
    \/ \E min_value \in {Unset, Num(5), Num(10)},
          max_value \in {Unset, Num(10)}, field \in RouteFields :
          Search("range", <<>>, field,
                 Kwargs(Unset, min_value, max_value, Unset))
    \* search(receipts, query, 'pattern', field, pattern=..), and the
    \* pattern branch of the route, which passes search_query.pattern
    \/ \E query \in {<<>>, <<"a">>}, pattern \in {Str(<<"a">>), Str(<<".">>)},
          field \in RouteFields :
          \/ Search("pattern", query, field,
                    Kwargs(Unset, Unset, Unset, pattern))
          \/ RouteSearch("pattern", query, field,
                         Kwargs(None, None, None, pattern))
    \/ Respond

SpecRange == Init /\ [][NextRange]_vars

(***************************************************************************)
(* Specification of the three dispatchers: every registered name and names *)
(* that the registry of the engine does not hold.                          *)
(***************************************************************************)
\* aggregate(receipts, function, field, **kwargs) on the caller's list
Aggregate(function, field, kwargs) ==
    /\ pc = "loaded"
    /\ call' = Call("aggregate", function, field, FALSE, AllOf(receipts), <<>>,
                    kwargs)
    /\ outcome' = aggregate(receipts, AllOf(receipts), function, field, kwargs)
    /\ prev' = NoOutcome
    /\ pc' = "returned"
    /\ UNCHANGED <<receipts, caller>>

MaxDispatchRecs == 2
DispatchFields == {"vendor", "amount", "transaction_date"}
DispatchReceipts ==
    {[Receipt(Str(<<"a">>), Num(1), Num(1)) EXCEPT
        !.transaction_date =
            Str(<<"2", "0", "2", "4", "-", "0", "1", "-", "0", "5">>)],
     [Receipt(Str(<<"B">>), Num(1), Num(1)) EXCEPT
        !.transaction_date =
            Str(<<"2", "0", "2", "4", "-", "0", "1", "-", "2", "0">>)],
     [Receipt(Str(<<"a">>), Num(2), Num(2)) EXCEPT
        !.transaction_date =
            Str(<<"2", "0", "2", "4", "-", "0", "2", "-", "0", "1">>)],
     [Receipt(Str(<<"a", "b">>), Str(<<"a">>), Num(2)) EXCEPT
        !.transaction_date = Str(<<"a">>)]}
\* Every name that one of the registries holds, and two that none holds.
DispatchNames ==
    SortRegistry \cup SearchRegistry \cup AggregationFunctions
    \cup {"bubblesort", ""}
NextDispatch ==
    \/ Load(ListsUpTo(DispatchReceipts, MaxDispatchRecs), InOrder)
    \/ \E algorithm \in DispatchNames, field \in DispatchFields,
          reverse \in BOOLEAN :
          Sort(algorithm, field, reverse)
    \/ \E algorithm \in DispatchNames, query \in {<<>>, <<"a">>},
          field \in DispatchFields :
          Search(algorithm, query, field, NoKwargs)
    \/ \E function \in DispatchNames, field \in DispatchFields :
          Aggregate(function, field, NoAggKwargs)
    \/ Respond

SpecDispatch == Init /\ [][NextDispatch]_vars

(***************************************************************************)
(* Specification of the statistics: sum, mean, median, variance, std_dev   *)
(* and mode over values that float() accepts, rejects, or fails on.        *)
(***************************************************************************)
MaxCoerceRecs == 3
CoerceReceipts ==
    {Receipt(Str(<<"x">>), a, Absent) :
        a \in {Num(1), Num(2), Num(4), Str(<<" ", "2">>), Str(<<"x">>), None,
               Absent, Huge}}
Statistics == {"sum", "mean", "median", "variance", "std_dev", "mode"}

NextCoerce ==
    \/ Load(ListsUpTo(CoerceReceipts, MaxCoerceRecs), InOrder)
    \/ \E function \in Statistics, field \in RouteFields :
          Aggregate(function, field, NoAggKwargs)
    \/ Respond

SpecCoerce == Init /\ [][NextCoerce]_vars

(***************************************************************************)
(* Specification of mode: lists of up to five values, among them a number  *)
(* and two texts that read as that number.                                 *)
(***************************************************************************)
MaxModeRecs == 5
ModeReceipts ==
    {Receipt(v, Num(1), Absent) :
        v \in {Str(<<"A">>), Str(<<"B">>), Str(<<"C">>), None, Num(1),
               Str(<<"1">>), Str(<<"0", "1">>)}}

NextMode ==
    \/ Load(ListsUpTo(ModeReceipts, MaxModeRecs), InOrder)
    \/ Aggregate("mode", "vendor", NoAggKwargs)
    \/ Respond

SpecMode == Init /\ [][NextMode]_vars

(***************************************************************************)
(* Specification of the histogram: numbers, text that reads as a number,   *)
(* text that does not, and None, with the bins asked for or left out.      *)
(***************************************************************************)
MaxHistogramRecs == 3
HistogramReceipts ==
    {Receipt(Str(<<"x">>), a, Absent) :
        a \in {Num(1), Num(2), Num(4), Str(<<" ", "2">>), Str(<<"x">>), None}}
\* bins of the request: left out, or an int.
HistogramBins == {Unset, Num(1), Num(2), Num(3), Num(0), Num(-1)}

NextHistogram ==
    \/ Load(ListsUpTo(HistogramReceipts, MaxHistogramRecs), InOrder)
    \/ \E bins \in HistogramBins :
          Aggregate("histogram", "amount", AggKwargs(bins, NotPassed, NotPassed))
    \/ Respond

SpecHistogram == Init /\ [][NextHistogram]_vars

(***************************************************************************)
(* Specification of the histogram over texts: fields of texts only, and    *)
(* fields of texts with one that reads as a number among them.             *)
(***************************************************************************)
MaxCategoricalRecs == 4
CategoricalReceipts ==
    {Receipt(v, Num(1), Absent) :
        v \in {Str(<<"a">>), Str(<<"b">>), Str(<<"c">>), Str(<<"1">>), None}}
CategoricalBins == {Unset, Num(1), Num(2)}

NextCategorical ==
    \/ Load(ListsUpTo(CategoricalReceipts, MaxCategoricalRecs), InOrder)
    \/ \E bins \in CategoricalBins :
          Aggregate("histogram", "vendor", AggKwargs(bins, NotPassed, NotPassed))
    \/ Respond

SpecCategorical == Init /\ [][NextCategorical]_vars

(***************************************************************************)
(* Specification of the time series: records of four days of early 2024,   *)
(* and records whose time value is no date.                                *)
(***************************************************************************)
MaxSeriesRecs == 3
\* A record of the day with the amount.
Dated(day, amount) ==
    [Receipt(Str(<<"a">>), amount, Absent) EXCEPT !.transaction_date = day]
Jan03 == Str(<<"2", "0", "2", "4", "-", "0", "1", "-", "0", "3">>)
Jan05 == Str(<<"2", "0", "2", "4", "-", "0", "1", "-", "0", "5">>)
Jan20 == Str(<<"2", "0", "2", "4", "-", "0", "1", "-", "2", "0">>)
Feb01 == Str(<<"2", "0", "2", "4", "-", "0", "2", "-", "0", "1">>)
\* Time values that are no date: text that is none, a date with a time of
\* day, a number, None, and no entry at all.
Undated == {Str(<<"a">>), Str(<<"2", "0", "2", "4", "-", "0", "2", "-", "0", "1", " ", "1", "0", ":", "0", "0", ":", "0", "0">>), Num(5), None, Absent}
SeriesReceipts ==
    {Dated(Jan05, Num(10)), Dated(Jan05, Num(20)), Dated(Jan05, None),
     Dated(Jan20, Num(20)), Dated(Jan20, Num(10)), Dated(Feb01, Num(30)),
     Dated(Jan03, Num(30)), Dated(Jan03, Num(10))}
    \cup {Dated(day, Num(10)) : day \in Undated}
Windows == {NotPassed, "daily", "weekly", "monthly"}

NextSeries ==
    \/ Load(ListsUpTo(SeriesReceipts, MaxSeriesRecs), InOrder)
    \/ \E window \in Windows :
          Aggregate("time_series", "amount", AggKwargs(Unset, NotPassed, window))
    \/ Aggregate("time_series", "transaction_date", NoAggKwargs)
    \/ Respond

SpecSeries == Init /\ [][NextSeries]_vars

(***************************************************************************)
(* Specification of binary search next to linear search, on lists long     *)
(* enough for a run of matches with records on both sides of the middle.   *)
(***************************************************************************)
MaxBinaryRecs == 4
BinaryReceipts ==
    {Receipt(v, Num(12), Absent) :
        v \in {Str(<<"a">>), Str(<<"B">>), Str(<<"a", "b">>), Str(<<"b", "a">>),
               Str(<<"c">>)}}
BinaryQueries == {<<>>, <<"a">>, <<"b">>, <<"A", "b">>}

NextBinary ==
    \/ Load(ListsUpTo(BinaryReceipts, MaxBinaryRecs), InOrder)
    \/ \E algorithm \in {"binary", "linear"}, query \in BinaryQueries :
          Search(algorithm, query, "vendor", NoKwargs)
    \/ Respond

SpecBinary == Init /\ [][NextBinary]_vars

(***************************************************************************)
(* Specification of fuzzy searches one after another over the same list:   *)
(* the records keep the similarity_score an earlier call assigned.         *)
(***************************************************************************)
\* search(receipts, ...) once more on the list of the last search call.
SearchAgain(algorithm, query, field, kwargs) ==
    /\ pc = "returned"
    /\ call.api = "search"
    /\ LET return(r) == /\ outcome' = Outcome(r.status, r.list, r.impl)
                         /\ receipts' = r.recs
       IN  return(search(receipts, AllOf(receipts), query, algorithm, field,
                         kwargs))
    /\ call' = Call("search", algorithm, field, FALSE, AllOf(receipts), query,
                    kwargs)
    /\ prev' = outcome
    /\ UNCHANGED <<caller, pc>>

MaxRepeatRecs == 2
RepeatReceipts ==
    {Receipt(Str(<<"a">>), Num(12), Str(<<"a", "b">>)),
     Receipt(Str(<<"A", "b">>), Num(12), Str(<<>>)),
     Receipt(Str(<<"A", "b">>), Num(12), Str(<<"a", "b">>))}
RepeatQueries == {<<>>, <<"a">>, <<"a", "B">>}
RepeatFields == {"vendor", "items"}
RepeatThresholds == {Num(0), Frac(1, 2), Unset}

NextRepeat ==
    \/ Load(ListsUpTo(RepeatReceipts, MaxRepeatRecs), InOrder)
    \/ \E query \in RepeatQueries, field \in RepeatFields,
          threshold \in RepeatThresholds :
          Search("fuzzy", query, field, Kwargs(threshold, Unset, Unset, Unset))
    \/ \E query \in RepeatQueries, field \in RepeatFields,
          threshold \in RepeatThresholds :
          SearchAgain("fuzzy", query, field,
                      Kwargs(threshold, Unset, Unset, Unset))
    \/ Respond

SpecRepeat == Init /\ [][NextRepeat]_vars

(***************************************************************************)
(* Specification of the edit distance: fuzzy search with threshold 0 of    *)
(* every text over a small alphabet in one record holding every such text. *)
(***************************************************************************)
MaxDistanceLen == 3
DistanceTexts == ListsUpTo({"a", "b", "A"}, MaxDistanceLen)
DistanceReceipts == {Receipt(Str(s2), Num(12), Absent) : s2 \in DistanceTexts}

NextDistance ==
    \/ Load({<<receipt>> : receipt \in DistanceReceipts}, InOrder)
    \/ \E s1 \in DistanceTexts :
          Search("fuzzy", s1, "vendor", Kwargs(Num(0), Unset, Unset, Unset))
    \/ Respond

SpecDistance == Init /\ [][NextDistance]_vars

(***************************************************************************)
(* Specification of the two representations of a record: every algorithm   *)
(* of the three engines on lists of dicts, of objects, and of both.        *)
(***************************************************************************)
MaxStyleRecs == 2
StyleReceipts ==
    LET dicts == {Receipt(Str(<<"a">>), Num(2), Num(2)),
                  Receipt(Str(<<"B">>), Num(1), Num(1))}
    IN  dicts \cup {Object(receipt) : receipt \in dicts}

NextStyle ==
    \/ Load(ListsUpTo(StyleReceipts, MaxStyleRecs), InOrder)
    \/ \E algorithm \in SortRegistry, field \in RouteFields,
          reverse \in BOOLEAN :
          Sort(algorithm, field, reverse)
    \/ \E algorithm \in SearchRegistry, query \in {<<>>, <<"a">>, <<"1">>},
          field \in RouteFields :
          Search(algorithm, query, field, NoKwargs)
    \/ \E function \in AggregationFunctions, field \in RouteFields :
          Aggregate(function, field, NoAggKwargs)
    \/ Respond

SpecStyle == Init /\ [][NextStyle]_vars

(***************************************************************************)
(* Properties of the sort engine.                                          *)
(***************************************************************************)
\* The entries of the listed records under key field ('' where the key is
\* absent), in list order.
FieldValues(recs, list, field) ==
    [k \in 1..Len(list) |-> dict_get(recs[list[k]], field)]

SortReturned ==
    pc = "returned" /\ call.api = "sort" /\ call.name \in SortRegistry

\* C1: on the same list, field and direction, quicksort, mergesort, timsort
\* and heapsort all return, or all raise, and the lists they return carry
\* the same sequence of field values.
C1_SortAlgorithmsAgree ==
    SortReturned =>
        \A algorithm \in SortRegistry :
            LET other == sort(receipts, call.input, call.field, algorithm,
                              call.reverse)
            IN  /\ other.status = outcome.status
                /\ FieldValues(receipts, other.list, call.field)
                     = FieldValues(receipts, outcome.list, call.field)

\* Heapsort, descending, has returned three records in an order that is not
\* the input order and with at least two different field values.
C1_Witness ==
    /\ SortReturned
    /\ call.name = "heapsort"
    /\ call.reverse
    /\ outcome.status = "ok"
    /\ Len(outcome.list) = 3
    /\ outcome.list # call.input
    /\ \E a, b \in 1..3 :
          dict_get(receipts[a], call.field) # dict_get(receipts[b], call.field)

\* C2 as stated: sorting the returned list again with the same arguments
\* returns the same sequence of records.
C2_ResortSameRecords ==
    (SortReturned /\ prev.status = "ok") => outcome.list = prev.list

\* C2 amended: sorting the returned list again returns a list with the same
\* sequence of field values; the sequence of records itself is the same for
\* timsort in both directions and for quicksort and mergesort ascending.
C2_ResortIdempotent ==
    (SortReturned /\ prev.status = "ok") =>
        /\ outcome.status = "ok"
        /\ FieldValues(receipts, outcome.list, call.field)
             = FieldValues(receipts, prev.list, call.field)
        /\ (\/ call.name = "timsort"
            \/ call.name \in {"quicksort", "mergesort"} /\ ~call.reverse)
              => outcome.list = prev.list

\* Mergesort, ascending, has sorted its own result of three records, two of
\* which share the field value.
C2_Witness ==
    /\ SortReturned
    /\ prev.status = "ok"
    /\ call.name = "mergesort"
    /\ ~call.reverse
    /\ Len(outcome.list) = 3
    /\ \E a, b \in 1..3 :
          /\ a # b
          /\ dict_get(receipts[a], call.field) = dict_get(receipts[b], call.field)
    /\ \E a, b \in 1..3 :
          dict_get(receipts[a], call.field) # dict_get(receipts[b], call.field)

\* The entries under key field of the listed records can be compared with
\* each other.
MutuallyComparable(recs, list, field) ==
    \A a, b \in 1..Len(list) :
        a # b => comparable(dict_get(recs[list[a]], field),
                            dict_get(recs[list[b]], field))

IsPermutation(list, input) ==
    /\ Len(list) = Len(input)
    /\ \A x \in 1..Len(receipts) :
          Cardinality({k \in 1..Len(list) : list[k] = x})
            = Cardinality({k \in 1..Len(input) : input[k] = x})

Ordered(recs, list, field, reverse) ==
    \A k \in 1..(Len(list) - 1) :
        LET v == dict_get(recs[list[k]], field)
            w == dict_get(recs[list[k + 1]], field)
        IN  IF reverse THEN le(w, v) ELSE le(v, w)

\* C3: each of the four sorts returns a permutation of its input whose
\* field values are non-decreasing (ascending) or non-increasing
\* (descending), whenever the field values can be compared with each other.
C3_SortedPermutation ==
    (SortReturned /\ MutuallyComparable(receipts, call.input, call.field)) =>
        /\ outcome.status = "ok"
        /\ IsPermutation(outcome.list, call.input)
        /\ Ordered(receipts, outcome.list, call.field, call.reverse)

(***************************************************************************)
(* Properties of the dispatchers.                                          *)
(***************************************************************************)
\* The registry of the engine behind an entry point.
RegistryOf(api) ==
    CASE api = "sort" -> SortRegistry
      [] api = "search" -> SearchRegistry
      [] api = "aggregate" -> AggregationFunctions

\* What the implementation registered under name gives when it is called
\* with the arguments of the call c on the records recs.
OwnImplementation(c, recs) ==
    CASE c.api = "sort" ->
           LET r == CASE c.name = "quicksort" ->
                            _quicksort(recs, c.input, c.field, c.reverse)
                      [] c.name = "mergesort" ->
                            _mergesort(recs, c.input, c.field, c.reverse)
                      [] c.name = "timsort" ->
                            _timsort(recs, c.input, c.field, c.reverse)
                      [] c.name = "heapsort" ->
                            _heapsort(recs, c.input, c.field, c.reverse)
           IN  [status |-> IF r.err THEN "TypeError" ELSE "ok",
                list |-> IF r.err THEN <<>> ELSE r.arr,
                value |-> None, recs |-> recs]
      [] c.api = "search" ->
           LET r == CASE c.name = "linear" ->
                            _linear_search(recs, c.input, c.query, c.field)
                      [] c.name = "binary" ->
                            _binary_search(recs, c.input, c.query, c.field)
                      [] c.name = "hash" ->
                            _hash_search(recs, c.input, c.query, c.field)
                      [] c.name = "fuzzy" ->
                            _fuzzy_search(recs, c.input, c.query, c.field,
                                          DefaultThreshold)
                      [] c.name = "range" ->
                            _range_search(recs, c.input, Str(c.query),
                                          Str(FieldText(c.field)), "amount")
                      [] c.name = "pattern" ->
                            _pattern_search(recs, c.input, c.query, c.field)
           IN  [status |-> r.status, list |-> r.list, value |-> None,
                recs |-> r.recs]
      [] c.api = "aggregate" ->
           LET r == CASE c.name = "sum" -> _sum(recs, c.input, c.field)
                      [] c.name = "mean" -> _mean(recs, c.input, c.field)
                      [] c.name = "median" -> _median(recs, c.input, c.field)
                      [] c.name = "mode" -> _mode(recs, c.input, c.field)
                      [] c.name = "variance" -> _variance(recs, c.input, c.field)
                      [] c.name = "std_dev" ->
                            _std_deviation(recs, c.input, c.field)
                      [] c.name = "histogram" ->
                            _histogram(recs, c.input, c.field, DefaultBins)
                      [] c.name = "time_series" ->
                            _time_series_aggregation(recs, c.input, c.field,
                                DefaultTimeField, DefaultWindow)
           IN  [status |-> r.status, list |-> <<>>, value |-> r.value,
                recs |-> recs]

\* C4: a call of sort, search or aggregate with a name that the registry of
\* the engine does not hold raises ValueError, runs no implementation and
\* leaves every record as it was; a call with a registered name runs the
\* implementation registered under that name, gives what that
\* implementation gives, and does not raise the unknown-name error.
C4_DispatchByName ==
    [][(pc = "loaded" /\ pc' = "returned") =>
         IF call'.name \notin RegistryOf(call'.api)
         THEN /\ outcome' = Outcome("ValueError", <<>>, "none")
              /\ receipts' = receipts
         ELSE LET own == OwnImplementation(call', receipts)
              IN  /\ outcome'.impl = call'.name
                  /\ outcome'.status = own.status
                  /\ outcome'.list = own.list
                  /\ outcome'.value = own.value
                  /\ receipts' = own.recs
                  /\ ~(outcome'.status = "ValueError" /\ outcome'.impl = "none")
      ]_vars

\* aggregate was called on a list that is not empty with the name of a
\* search strategy, and raised the unknown-name error.
C4_Witness ==
    /\ pc = "returned"
    /\ call.api = "aggregate"
    /\ call.name \in SearchRegistry
    /\ call.name \notin AggregationFunctions
    /\ Len(call.input) >= 1
    /\ outcome = Outcome("ValueError", <<>>, "none")

(***************************************************************************)
(* Properties of the search engine.                                        *)
(***************************************************************************)
SearchReturned(algorithm) ==
    pc = "returned" /\ call.api = "search" /\ call.name = algorithm

\* The text of the dict's entry under key field ('' where the key is
\* absent), lower-cased.
LoweredEntry(receipt, field) == lower(to_str(dict_get(receipt, field)))

\* C5: linear search returns exactly the records whose lower-cased field
\* value contains the lower-cased query, each once and in input order.
C5_LinearExact ==
    SearchReturned("linear") =>
        /\ outcome.status = "ok"
        /\ outcome.list =
             SelectSeq(call.input, LAMBDA x :
                 contains(LoweredEntry(receipts[x], call.field),
                          lower(call.query)))

\* C6: the empty query under the linear and under the pattern strategy
\* returns the whole input, every record once and in input order.
C6_EmptyQueryReturnsAll ==
    ((SearchReturned("linear") \/ SearchReturned("pattern"))
        /\ call.query = <<>>) =>
        /\ outcome.status = "ok"
        /\ outcome.list = call.input

\* Linear search with the empty query has returned two records, one of them
\* with an empty field value.
C6_Witness ==
    /\ SearchReturned("linear")
    /\ call.query = <<>>
    /\ Len(call.input) = 2
    /\ outcome.list = <<1, 2>>
    /\ \E x \in 1..2 : LoweredEntry(receipts[x], call.field) = <<>>
    /\ \E x \in 1..2 : LoweredEntry(receipts[x], call.field) # <<>>

\* The classic edit distance: insertion, deletion and substitution cost 1.
RECURSIVE EditDistance(_, _)
EditDistance(a, b) ==
    IF a = <<>> THEN Len(b)
    ELSE IF b = <<>> THEN Len(a)
    ELSE min2(EditDistance(Tail(a), b) + 1,
              min2(EditDistance(a, Tail(b)) + 1,
                   EditDistance(Tail(a), Tail(b))
                     + (IF Head(a) = Head(b) THEN 0 ELSE 1)))

\* 1 - EditDistance / (the longer length) >= n/d, for the lower-cased query
\* and field of record x; two empty texts have similarity 1.
SimilarityAtLeast(x, n, d) ==
    LET q == lower(call.query)
        f == LoweredEntry(receipts[x], call.field)
        longer == max2(Len(q), Len(f))
    IN  IF longer = 0 THEN d >= n
        ELSE (longer - EditDistance(q, f)) * d >= n * longer

\* Record x is at least as similar to the query as record y.
AsSimilarAs(x, y) ==
    LET q == lower(call.query)
        fx == LoweredEntry(receipts[x], call.field)
        fy == LoweredEntry(receipts[y], call.field)
        lx == max2(Len(q), Len(fx))
        ly == max2(Len(q), Len(fy))
        nx == IF lx = 0 THEN 1 ELSE lx - EditDistance(q, fx)
        ny == IF ly = 0 THEN 1 ELSE ly - EditDistance(q, fy)
    IN  nx * (IF ly = 0 THEN 1 ELSE ly) >= ny * (IF lx = 0 THEN 1 ELSE lx)

\* list holds exactly the records as similar as n/d or more, each once, by
\* descending similarity, records of equal similarity in input order.
IsFuzzyResult(list, n, d) ==
    /\ \A x \in 1..Len(receipts) :
          Cardinality({k \in 1..Len(list) : list[k] = x})
            = IF SimilarityAtLeast(x, n, d) THEN 1 ELSE 0
    /\ \A k \in 1..(Len(list) - 1) :
          /\ AsSimilarAs(list[k], list[k + 1])
          /\ AsSimilarAs(list[k + 1], list[k]) => list[k] < list[k + 1]

\* A direct fuzzy search with a threshold given as a number.
FuzzyWithThreshold ==
    SearchReturned("fuzzy") /\ call.kwargs.threshold.t = "num"

\* C7: fuzzy search returns exactly the records whose similarity is at
\* least the threshold, by descending similarity, ties in input order.
C7_FuzzyExactOrdered ==
    FuzzyWithThreshold =>
        /\ outcome.status = "ok"
        /\ IsFuzzyResult(outcome.list, call.kwargs.threshold.n,
                         call.kwargs.threshold.d)

\* Fuzzy search with threshold 1/2 has returned the third record first and
\* then the first and the second, which differ and are equally similar.
C7_Witness ==
    /\ FuzzyWithThreshold
    /\ call.kwargs.threshold = Frac(1, 2)
    /\ outcome.list = <<3, 1, 2>>
    /\ receipts[1].vendor # receipts[2].vendor
    /\ AsSimilarAs(1, 2) /\ AsSimilarAs(2, 1)
    /\ ~AsSimilarAs(1, 3)

\* C8: with threshold 0 fuzzy search returns every input record; with
\* threshold 1 it returns exactly the records whose field value equals the
\* query ignoring case.
C8_FuzzyThresholdExtremes ==
    /\ (FuzzyWithThreshold /\ call.kwargs.threshold = Num(0)) =>
          /\ outcome.status = "ok"
          /\ IsPermutation(outcome.list, call.input)
    /\ (FuzzyWithThreshold /\ call.kwargs.threshold = Num(1)) =>
          /\ outcome.status = "ok"
          /\ \A x \in 1..Len(receipts) :
                Cardinality({k \in 1..Len(outcome.list) : outcome.list[k] = x})
                  = IF LoweredEntry(receipts[x], call.field) = lower(call.query)
                    THEN 1 ELSE 0

\* Fuzzy search with threshold 1 has returned one of two records: the one
\* that equals the query but for the case of a letter.
C8_Witness ==
    /\ FuzzyWithThreshold
    /\ call.kwargs.threshold = Num(1)
    /\ Len(call.input) = 2
    /\ Len(outcome.list) = 1
    /\ to_str(dict_get(receipts[outcome.list[1]], call.field)) # call.query

\* A fuzzy search whose caller supplies no threshold: a direct call without
\* the keyword, or a request to the route that leaves threshold out.
FuzzyWithoutThreshold ==
    /\ pc = "returned"
    /\ call.name = "fuzzy"
    /\ \/ call.api = "search" /\ call.kwargs.threshold = Unset
       \/ call.api = "route" /\ call.kwargs.threshold = None

\* C9: without a threshold from the caller, fuzzy search applies threshold
\* 0.7, in a direct call and through the search route.
C9_DefaultThreshold ==
    FuzzyWithoutThreshold =>
        /\ outcome.status = "ok"
        /\ IsFuzzyResult(outcome.list, 7, 10)

\* A range request to the route whose bounds are left out or are numbers.
RangeWithBounds ==
    /\ pc = "returned"
    /\ call.api = "route"
    /\ call.name = "range"
    /\ float_or_none(call.kwargs.min_value).ok
    /\ float_or_none(call.kwargs.max_value).ok

\* Record x has a field that is present and is a number, or text that reads
\* as a number, within the bounds given (both inclusive).
InRange(x, min_value, max_value) ==
    LET e == receipts[x][call.field]
        v == to_float(e).val
    IN  /\ e.t \in {"num", "str"}
        /\ to_float(e).ok
        /\ min_value.t = "none" \/ v.n * min_value.d >= min_value.n * v.d
        /\ max_value.t = "none" \/ v.n * max_value.d <= max_value.n * v.d

C10_WitnessMax ==
    /\ RangeWithBounds
    /\ call.kwargs.max_value = Num(10)
    /\ call.field = "amount"
    /\ Len(call.input) = 2
    /\ receipts[1].amount = Num(15)
    /\ receipts[2].amount = Str(<<"1", "0">>)
    /\ outcome.list = <<2>>

(***************************************************************************)
(* Properties of the public search operation with named parameters.        *)
(***************************************************************************)
\* A keyword of the call: None where the caller left it out.
Given(kw) == IF kw = Unset THEN None ELSE kw

\* search was called with the named strategy and returned or raised.
NamedRange ==
    /\ SearchReturned("range")
    /\ call.kwargs.min_value # Unset \/ call.kwargs.max_value # Unset
NamedPattern ==
    /\ pc = "returned"
    /\ call.api \in {"search", "route"}
    /\ call.name = "pattern"
    /\ call.kwargs.pattern \notin {Unset, None}

\* C11: search with the range strategy and a named min or max returns the
\* records whose field lies within the given bounds, and search with the
\* pattern strategy and a named pattern returns the records whose field
\* matches that pattern; neither raises.
C11_NamedParameters ==
    /\ NamedRange =>
          /\ outcome.status = "ok"
          /\ outcome.list =
               SelectSeq(call.input, LAMBDA x :
                   InRange(x, Given(call.kwargs.min_value),
                           Given(call.kwargs.max_value)))
    /\ NamedPattern =>
          /\ outcome.status = "ok"
          /\ outcome.list =
               SelectSeq(call.input, LAMBDA x :
                   regex_search(call.kwargs.pattern.s,
                                to_str(dict_get(receipts[x], call.field))))

(***************************************************************************)
(* Properties of hash search.                                              *)
(***************************************************************************)
\* word is one of the words of text that blanks separate: it is not empty,
\* holds no blank, and lies in text between blanks or the ends of text.
IsWord(word, text) ==
    /\ word # <<>>
    /\ \A k \in 1..Len(word) : word[k] # " "
    /\ \E i \in 1..Len(text) :
          LET j == i + Len(word) - 1
          IN  /\ j <= Len(text)
              /\ SubSeq(text, i, j) = word
              /\ i = 1 \/ text[i - 1] = " "
              /\ j = Len(text) \/ text[j + 1] = " "

\* C12: for records with distinct identifiers, hash search returns exactly
\* the records whose lower-cased field value is the lower-cased query as a
\* whole or has it as one of its words, each record once, in input order.
C12_HashWholeOrWord ==
    (SearchReturned("hash")
        /\ \A x, y \in 1..Len(receipts) :
              x # y => receipts[x].id # receipts[y].id) =>
        /\ outcome.status = "ok"
        /\ outcome.list =
             SelectSeq(call.input, LAMBDA x :
                 \/ LoweredEntry(receipts[x], call.field) = lower(call.query)
                 \/ IsWord(lower(call.query),
                           LoweredEntry(receipts[x], call.field)))

\* Hash search for "B" has returned, once, a record whose vendor holds the
\* word twice, and has left out a record that holds "b" inside a word.
C12_Witness ==
    /\ SearchReturned("hash")
    /\ call.query = <<"B">>
    /\ call.field = "vendor"
    /\ Len(call.input) = 2
    /\ receipts[1].vendor = Str(<<"b", " ", "B">>)
    /\ receipts[2].vendor = Str(<<"b", "a">>)
    /\ outcome.list = <<1>>

(***************************************************************************)
(* Properties of pattern search.                                           *)
(***************************************************************************)
\* C13: pattern search with a query that is not a regular expression (it
\* opens a group that nothing closes) returns the empty list and raises
\* nothing, whatever the input list.
C13_InvalidPatternEmpty ==
    (SearchReturned("pattern")
        /\ call.kwargs = NoKwargs
        /\ \E k \in 1..Len(call.query) : call.query[k] = "(") =>
        /\ outcome.status = "ok"
        /\ outcome.list = <<>>


(***************************************************************************)
(* The two representations of a record.                                    *)
(***************************************************************************)
\* The list of the request with every record as a dict of the same fields.
AsDicts(recs) == [k \in 1..Len(recs) |-> [recs[k] EXCEPT !.style = "dict"]]

\* What the call that returned gives on the list of dicts.
OnDicts ==
    CASE call.api = "sort" ->
           sort(AsDicts(receipts), call.input, call.field, call.name,
                call.reverse)
      [] call.api = "search" ->
           LET result(r) == Outcome(r.status, r.list, r.impl)
           IN  result(search(AsDicts(receipts), call.input, call.query,
                             call.name, call.field, call.kwargs))
      [] call.api = "aggregate" ->
           aggregate(AsDicts(receipts), call.input, call.name, call.field,
                     call.kwargs)

\* C14: every sort algorithm, search strategy and aggregation function gives
\* on a list of attribute-style records, or of both kinds, the result it
\* gives on the list of mapping-style records with the same fields.
C14_EitherRepresentation ==
    pc = "returned" => outcome = OnDicts

\* The algorithms that read the field with hasattr and getattr: the four
\* sorts, linear search and binary search give the same on both kinds.
GetattrReadersAgree ==
    /\ pc = "returned"
    /\ call.api = "sort" \/ call.name \in {"linear", "binary"}
    => outcome = OnDicts


(***************************************************************************)
(* The caller's list after a sort or a search.                             *)
(***************************************************************************)
\* The searches that are not fuzzy search.
PlainSearches == {"linear", "binary", "hash", "range", "pattern"}

C15_SearchWitness ==
    /\ pc = "returned"
    /\ call.api = "search"
    /\ call.name \in PlainSearches
    /\ outcome.status = "ok"
    /\ Len(outcome.list) = 1
    /\ caller = <<1, 2>>


(***************************************************************************)
(* The statistics over lists with values that are not numbers.             *)
(***************************************************************************)
AggReturned(functions) ==
    pc = "returned" /\ call.api = "aggregate" /\ call.name \in functions

\* The entry of the record at position x of the request under the field of
\* the call, None where the record has none.
Entry(x) ==
    IF receipts[x][call.field].t = "absent" THEN None
    ELSE receipts[x][call.field]

\* The entry is a number, or text that reads as one.
IsNumeric(v) ==
    \/ v.t = "num"
    \/ /\ v.t = "str"
       /\ \E i, j \in 1..Len(v.s) :
              /\ i <= j
              /\ \A k \in 1..Len(v.s) :
                     IF k < i \/ k > j THEN v.s[k] = " "
                     ELSE \E m \in 1..10 : DigitChars[m] = v.s[k]

\* The positions of the input whose entry float() does not turn into a
\* number: None, absent, text that is no number, and an int that is too
\* large for a float.
NotCoercible == {k \in 1..Len(call.input) : ~IsNumeric(Entry(call.input[k]))}
Coercibles == (1..Len(call.input)) \ NotCoercible

\* C16: over a list with no coercible value, sum, mean and median return
\* 0.0 and raise nothing; with fewer than two coercible values variance and
\* std_dev return 0.0; with no value that is not null mode returns [].
C16_NothingToAggregate ==
    /\ /\ AggReturned({"sum", "mean", "median"})
       /\ Coercibles = {}
       => outcome.status = "ok" /\ outcome.value = Num(0)
    /\ /\ AggReturned({"variance", "std_dev"})
       /\ Cardinality(Coercibles) < 2
       => outcome.status = "ok" /\ outcome.value = Num(0)
    /\ /\ AggReturned({"mode"})
       /\ \A k \in 1..Len(call.input) : Entry(call.input[k]).t = "none"
       => outcome.status = "ok" /\ outcome.value = List(<<>>)

\* No entry of the input is an int beyond the range of float.
AllFloats == \A k \in 1..Len(call.input) : Entry(call.input[k]).t # "huge"

\* The same over the lists whose numbers are all in the range of float.
NothingToAggregateOfFloats == AllFloats => C16_NothingToAggregate


\* The number that the entry of the record at position k of the input is.
NumberAt(k) == to_float(Entry(call.input[k])).val

\* The sum of the numbers at the positions of S.
RECURSIVE SumOver(_)
SumOver(S) ==
    IF S = {} THEN Num(0)
    ELSE LET k == CHOOSE x \in S : TRUE
         IN  add(NumberAt(k), SumOver(S \ {k}))

\* m is the median of the numbers at the positions of S: the number in the
\* middle of an odd count, half the sum of the two in the middle of an even
\* count.
IsMedian(m, S) ==
    LET n == Cardinality(S)
        below(v) == Cardinality({k \in S : lt(NumberAt(k), v)})
        above(v) == Cardinality({k \in S : gt(NumberAt(k), v)})
    IN  IF n % 2 = 1
        THEN \E k \in S :
                /\ m = NumberAt(k)
                /\ below(m) <= n \div 2
                /\ above(m) <= n \div 2
        ELSE \E i, j \in S :
                /\ i # j
                /\ le(NumberAt(i), NumberAt(j))
                /\ below(NumberAt(i)) <= (n \div 2) - 1
                /\ n - above(NumberAt(i)) >= n \div 2
                /\ above(NumberAt(j)) <= (n \div 2) - 1
                /\ n - below(NumberAt(j)) >= n \div 2
                /\ mul(m, Num(2)) = add(NumberAt(i), NumberAt(j))

\* C17: over a list with coercible values, sum is their sum, mean their sum
\* divided by their count, and median their median; the records whose
\* entry is absent or not coercible count for nothing.
C17_OverCoercibleValues ==
    /\ AggReturned({"sum", "mean", "median"})
    /\ Coercibles # {}
    => /\ outcome.status = "ok"
       /\ call.name = "sum" => outcome.value = SumOver(Coercibles)
       /\ call.name = "mean" =>
              mul(outcome.value, Num(Cardinality(Coercibles)))
                  = SumOver(Coercibles)
       /\ call.name = "median" => IsMedian(outcome.value, Coercibles)

\* The same over the lists whose numbers are all in the range of float.
OverCoercibleFloats == AllFloats => C17_OverCoercibleValues

\* Two of four records count: the mean of 1 and 4 is 5/2.
OverCoercibleFloatsWitness ==
    /\ AggReturned({"mean"})
    /\ Len(call.input) = MaxCoerceRecs
    /\ Cardinality(Coercibles) = 2
    /\ outcome.value = Frac(5, 2)


(***************************************************************************)
(* Mode.                                                                   *)
(***************************************************************************)
\* The positions of the input whose entry is not null.
NonNull == {k \in 1..Len(call.input) : Entry(call.input[k]).t # "none"}

\* The entry at position k of the input as text.
TextAt(k) == to_str(Entry(call.input[k]))

\* How many non-null entries have the text.
Frequency(text) == Cardinality({k \in NonNull : TextAt(k) = text})

\* The text is one of the most frequent.
MostFrequent(text) == \A k \in NonNull : Frequency(TextAt(k)) <= Frequency(text)

\* C18: mode returns the texts of the non-null values that are most
\* frequent, every one of them and each once; values are the same when
\* their texts are, whatever number they read as.
C18_ModeAllTied ==
    AggReturned({"mode"}) =>
        /\ outcome.status = "ok"
        /\ outcome.value.t = "list"
        /\ LET items == outcome.value.items
           IN  /\ \A i \in 1..Len(items) :
                      \E k \in NonNull :
                          items[i] = Str(TextAt(k)) /\ MostFrequent(TextAt(k))
               /\ \A k \in NonNull :
                      MostFrequent(TextAt(k)) =>
                          \E i \in 1..Len(items) : items[i] = Str(TextAt(k))
               /\ \A i, j \in 1..Len(items) : items[i] = items[j] => i = j

\* The values A, A, B, B, C give [A, B].
C18_Witness ==
    /\ AggReturned({"mode"})
    /\ [k \in 1..Len(call.input) |-> Entry(call.input[k])]
           = <<Str(<<"A">>), Str(<<"A">>), Str(<<"B">>), Str(<<"B">>),
               Str(<<"C">>)>>
    /\ outcome.value = List(<<Str(<<"A">>), Str(<<"B">>)>>)

\* The number 1 and the text '1' are one value, the text '01' is another.
ModeByTextWitness ==
    /\ AggReturned({"mode"})
    /\ [k \in 1..Len(call.input) |-> Entry(call.input[k])]
           = <<Str(<<"0", "1">>), Num(1), Str(<<"1">>)>>
    /\ outcome.value = List(<<Str(<<"1">>)>>)


(***************************************************************************)
(* Histogram.                                                              *)
(***************************************************************************)
\* The number of bins of the call.
BinsAsked == IF call.kwargs.bins = Unset THEN DefaultBins ELSE call.kwargs.bins.n

\* The least and the greatest of the numbers of the input.
Least == CHOOSE v \in {NumberAt(k) : k \in Coercibles} :
             \A k \in Coercibles : le(v, NumberAt(k))
Greatest == CHOOSE v \in {NumberAt(k) : k \in Coercibles} :
                \A k \in Coercibles : le(NumberAt(k), v)

\* The width of a bucket.
Width == div(sub(Greatest, Least), Num(BinsAsked))

\* The bucket of v: floor((v - min) / width), and the last bucket for what
\* lies beyond it.
Bucket(v) ==
    CHOOSE q \in 0..(BinsAsked - 1) :
        /\ le(add(Least, mul(Num(q), Width)), v)
        /\ q < BinsAsked - 1 => lt(v, add(Least, mul(Num(q + 1), Width)))

RECURSIVE Total(_)
Total(counts) == IF counts = <<>> THEN 0 ELSE Head(counts) + Total(Tail(counts))

\* C19: with one bin or more over numbers that are not all equal, the
\* histogram has bins + 1 edges from the least to the greatest number in
\* equal steps and bins counts; a number v is counted in the bucket
\* min(floor((v - min) / width), bins - 1), the greatest in the last; and
\* the counts add up to the number of coercible values.
C19_NumericHistogram ==
    /\ AggReturned({"histogram"})
    /\ BinsAsked >= 1
    /\ Coercibles # {}
    /\ Least # Greatest
    => /\ outcome.status = "ok"
       /\ LET edges == outcome.value.bins
              counts == outcome.value.counts
          IN  /\ Len(edges) = BinsAsked + 1
              /\ edges[1] = Least
              /\ edges[BinsAsked + 1] = Greatest
              /\ \A i \in 1..BinsAsked : sub(edges[i + 1], edges[i]) = Width
              /\ Len(counts) = BinsAsked
              /\ \A i \in 1..BinsAsked :
                     counts[i] = Cardinality({k \in Coercibles :
                                                Bucket(NumberAt(k)) = i - 1})
              /\ counts[BinsAsked] >= 1
              /\ Total(counts) = Cardinality(Coercibles)

\* Three bins over 1, ' 2' and 4: the edges are 1, 2, 3, 4 and the greatest
\* number is counted in the last bucket.
C19_Witness ==
    /\ AggReturned({"histogram"})
    /\ BinsAsked = 3
    /\ [k \in 1..Len(call.input) |-> Entry(call.input[k])]
           = <<Num(1), Str(<<" ", "2">>), Num(4)>>
    /\ outcome.value.bins = <<Num(1), Num(2), Num(3), Num(4)>>
    /\ outcome.value.counts = <<1, 1, 1>>

\* C20: over a field whose values are numbers that are all equal, the
\* histogram has one bucket, at that number, which counts the values,
\* whatever number of bins was asked for.
C20_SingleBucket ==
    /\ AggReturned({"histogram"})
    /\ Coercibles # {}
    /\ NonNull = Coercibles
    /\ Least = Greatest
    => /\ outcome.status = "ok"
       /\ outcome.value.bins = <<Least>>
       /\ outcome.value.counts = <<Cardinality(NonNull)>>

\* Two records with 2 and ' 2' and one with None, and zero bins asked for:
\* one bucket that counts two.
C20_Witness ==
    /\ AggReturned({"histogram"})
    /\ BinsAsked = 0
    /\ Len(call.input) = 3
    /\ Cardinality(Coercibles) = 2
    /\ NonNull = Coercibles
    /\ outcome.status = "ok"
    /\ outcome.value.bins = <<Num(2)>>
    /\ outcome.value.counts = <<2>>


(***************************************************************************)
(* Histogram over texts.                                                   *)
(***************************************************************************)
\* The distinct texts of the non-null entries.
DistinctTexts == {TextAt(k) : k \in NonNull}

\* The result is the categorical form over the non-null entries: the bins
\* most frequent texts, most frequent first, with their counts; the table
\* of every text with its frequency; 0 and the number of distinct texts.
IsCategorical(h) ==
    /\ h.t = "histogram"
    /\ Len(h.bins) = min2(BinsAsked, Cardinality(DistinctTexts))
    /\ Len(h.counts) = Len(h.bins)
    /\ \A i \in 1..Len(h.bins) :
           /\ h.bins[i].t = "str"
           /\ h.bins[i].s \in DistinctTexts
           /\ h.counts[i] = Frequency(h.bins[i].s)
    /\ \A i, j \in 1..Len(h.bins) : h.bins[i] = h.bins[j] => i = j
    /\ \A i \in 1..(Len(h.bins) - 1) : h.counts[i] >= h.counts[i + 1]
    /\ \A text \in DistinctTexts :
           \/ \E i \in 1..Len(h.bins) : h.bins[i].s = text
           \/ \A i \in 1..Len(h.bins) : Frequency(text) <= h.counts[i]
    /\ h.frequency_distribution.t = "dict"
    /\ LET table == h.frequency_distribution.items
       IN  /\ Len(table) = Cardinality(DistinctTexts)
           /\ \A text \in DistinctTexts :
                  \E i \in 1..Len(table) :
                      table[i] = [value |-> Str(text), count |-> Frequency(text)]
    /\ h.min_value = Num(0)
    /\ h.max_value = Num(Cardinality(DistinctTexts))

\* C21: a histogram with one bin or more over a field that contains a value
\* that is not a number is the categorical form, and every non-null value
\* of the field is counted in its table.
C21_CategoricalHistogram ==
    /\ AggReturned({"histogram"})
    /\ BinsAsked >= 1
    /\ \E k \in NonNull : ~IsNumeric(Entry(call.input[k]))
    => outcome.status = "ok" /\ IsCategorical(outcome.value)

\* The same over the fields that hold no value that is a number.
CategoricalOfTexts ==
    (\A k \in NonNull : ~IsNumeric(Entry(call.input[k])))
    => C21_CategoricalHistogram

\* One bin over b, a, a, c: the bin is a with count 2 and the table has the
\* three texts.
CategoricalOfTextsWitness ==
    /\ AggReturned({"histogram"})
    /\ BinsAsked = 1
    /\ [k \in 1..Len(call.input) |-> Entry(call.input[k])]
           = <<Str(<<"b">>), Str(<<"a">>), Str(<<"a">>), Str(<<"c">>)>>
    /\ outcome.value.bins = <<Str(<<"a">>)>>
    /\ outcome.value.counts = <<2>>
    /\ outcome.value.max_value = Num(3)


(***************************************************************************)
(* Time series.                                                            *)
(***************************************************************************)
\* The window of the call.
WindowAsked ==
    IF call.kwargs.window = NotPassed THEN DefaultWindow ELSE call.kwargs.window

\* The calendar of the four days: the day, the Monday of its week, and its
\* month.
Calendar(day) ==
    CASE day = Jan03 -> [daily |-> <<"2", "0", "2", "4", "-", "0", "1", "-", "0", "3">>, weekly |-> <<"2", "0", "2", "4", "-", "0", "1", "-", "0", "1">>, monthly |-> <<"2", "0", "2", "4", "-", "0", "1">>]
      [] day = Jan05 -> [daily |-> <<"2", "0", "2", "4", "-", "0", "1", "-", "0", "5">>, weekly |-> <<"2", "0", "2", "4", "-", "0", "1", "-", "0", "1">>, monthly |-> <<"2", "0", "2", "4", "-", "0", "1">>]
      [] day = Jan20 -> [daily |-> <<"2", "0", "2", "4", "-", "0", "1", "-", "2", "0">>, weekly |-> <<"2", "0", "2", "4", "-", "0", "1", "-", "1", "5">>, monthly |-> <<"2", "0", "2", "4", "-", "0", "1">>]
      [] day = Feb01 -> [daily |-> <<"2", "0", "2", "4", "-", "0", "2", "-", "0", "1">>, weekly |-> <<"2", "0", "2", "4", "-", "0", "1", "-", "2", "9">>, monthly |-> <<"2", "0", "2", "4", "-", "0", "2">>]

\* The time value of the record at position k of the input.
TimeAt(k) == receipts[call.input[k]].transaction_date

\* The positions of the input whose record has a day and contributes a
\* value: its amount when it has one, 1 when the records are counted.
Contributors ==
    {k \in 1..Len(call.input) :
        /\ TimeAt(k) \in {Jan03, Jan05, Jan20, Feb01}
        /\ Entry(call.input[k]).t # "none"}
Contribution(k) ==
    IF call.field = "transaction_date" THEN Num(1) ELSE NumberAt(k)

\* The bucket of the record at position k.
BucketKey(k) == Calendar(TimeAt(k))[WindowAsked]

\* The sum of the contributions of the positions of S.
RECURSIVE ContributionSum(_)
ContributionSum(S) ==
    IF S = {} THEN Num(0)
    ELSE LET k == CHOOSE x \in S : TRUE
         IN  add(Contribution(k), ContributionSum(S \ {k}))

\* The entry is the bucket of its time period.
IsBucket(entry) ==
    LET members == {k \in Contributors : BucketKey(k) = entry.time_period.s}
    IN  /\ members # {}
        /\ entry.count = Cardinality(members)
        /\ entry.sum = ContributionSum(members)
        /\ mul(entry.mean, Num(entry.count)) = entry.sum
        /\ \E k \in members : entry.min = Contribution(k)
        /\ \A k \in members : le(entry.min, Contribution(k))
        /\ \E k \in members : entry.max = Contribution(k)
        /\ \A k \in members : le(Contribution(k), entry.max)

\* The series is the buckets of the contributors, earliest first.
IsSeries(entries) ==
    /\ \A i \in 1..Len(entries) : IsBucket(entries[i])
    /\ \A i \in 1..(Len(entries) - 1) :
           str_lt(entries[i].time_period.s, entries[i + 1].time_period.s)
    /\ \A k \in Contributors :
           \E i \in 1..Len(entries) : entries[i].time_period.s = BucketKey(k)

\* Every time value of the input is text or missing.
NoTimeIsNumber ==
    \A k \in 1..Len(call.input) : TimeAt(k).t \in {"str", "none", "absent"}

\* C22: time_series returns one entry for every day, week (named by its
\* Monday) or month in which a record contributes a value, earliest first,
\* with the count, sum, mean, min and max of the values of that bucket.
C22_TimeSeriesBuckets ==
    /\ AggReturned({"time_series"})
    /\ NoTimeIsNumber
    => /\ outcome.status = "ok"
       /\ outcome.value.t = "list"
       /\ IsSeries(outcome.value.items)

\* The amounts 10, 20 and 30 of 2024-01-05, 2024-01-20 and 2024-02-01 by
\* month: 2024-01 with count 2, sum 30, mean 15, then 2024-02 with count 1,
\* sum 30, mean 30.
C22_Witness ==
    /\ AggReturned({"time_series"})
    /\ call.field = "amount"
    /\ WindowAsked = "monthly"
    /\ [k \in 1..Len(call.input) |-> receipts[call.input[k]]]
           = At(WithIds(<<Dated(Jan05, Num(10)), Dated(Jan20, Num(20)),
                          Dated(Feb01, Num(30))>>),
                SubSeq(AddressPool, 1, 3))
    /\ outcome.value
           = List(<<[time_period |-> Str(<<"2", "0", "2", "4", "-", "0", "1">>), count |-> 2, sum |-> Num(30),
                     mean |-> Num(15), min |-> Num(10), max |-> Num(20)],
                    [time_period |-> Str(<<"2", "0", "2", "4", "-", "0", "2">>), count |-> 1, sum |-> Num(30),
                     mean |-> Num(30), min |-> Num(30), max |-> Num(30)]>>)

\* Two days of one week, 2024-01-03 and 2024-01-05, in the bucket of their
\* Monday.
WeeklyWitness ==
    /\ AggReturned({"time_series"})
    /\ WindowAsked = "weekly"
    /\ outcome.status = "ok"
    /\ Len(outcome.value.items) = 1
    /\ outcome.value.items[1].time_period = Str(<<"2", "0", "2", "4", "-", "0", "1", "-", "0", "1">>)
    /\ outcome.value.items[1].count = 2
    /\ \E i, j \in 1..Len(call.input) : TimeAt(i) = Jan03 /\ TimeAt(j) = Jan05

\* C23: a record whose time value is missing or is no date, whatever its
\* type, is left out of the series, and the call returns the buckets of
\* the other records.
C23_UndatedDropped ==
    AggReturned({"time_series"}) =>
        /\ outcome.status = "ok"
        /\ outcome.value.t = "list"
        /\ IsSeries(outcome.value.items)

\* A record with a day, one with text that is no date and one with a date
\* and a time of day: one bucket, of the first record.
DroppedTextWitness ==
    /\ AggReturned({"time_series"})
    /\ Len(call.input) = 3
    /\ Cardinality(Contributors) = 1
    /\ \A k \in 1..Len(call.input) : TimeAt(k).t = "str"
    /\ outcome.status = "ok"
    /\ Len(outcome.value.items) = 1


(***************************************************************************)
(* Sorting values of types that cannot be compared.                        *)
(***************************************************************************)
\* The entry of the record at position k of the input under the field of
\* the call, the empty text where the record has none.
SortKeyAt(k) == dict_get(receipts[call.input[k]], call.field)

\* Two records of the input have values of types that cannot be compared.
Incompatible ==
    \E i, j \in 1..Len(call.input) :
        /\ i # j
        /\ \/ SortKeyAt(i).t # SortKeyAt(j).t
           \/ SortKeyAt(i).t \notin {"num", "str"}

\* C24: each of the four sorts raises, and returns no ordering, when two
\* records of its input have values of types that cannot be compared,
\* wherever in the list the two records are.
C24_IncompatibleRaises ==
    (SortReturned /\ Incompatible) =>
        outcome.status = "TypeError" /\ outcome.list = <<>>

\* Heapsort raised on three records of which only the last has no number:
\* two numbers and the default of a record without the field.
C24_Witness ==
    /\ SortReturned
    /\ call.name = "heapsort"
    /\ call.field = "amount"
    /\ Len(call.input) = 3
    /\ SortKeyAt(1).t = "num"
    /\ SortKeyAt(2).t = "num"
    /\ SortKeyAt(3) = Str(<<>>)
    /\ outcome.status = "TypeError"


(***************************************************************************)
(* Stability of mergesort.                                                 *)
(***************************************************************************)
\* Where the record at position k of the input stands in the result.
PlaceOf(k) == CHOOSE p \in 1..Len(outcome.list) : outcome.list[p] = call.input[k]

\* Records with equal values stand in the result in the order of the input.
KeepsInputOrder ==
    \A i, j \in 1..Len(call.input) :
        (i < j /\ SortKeyAt(i) = SortKeyAt(j)) => PlaceOf(i) < PlaceOf(j)

\* C25: mergesort, ascending and descending, returns records with equal
\* field values in the order in which they stand in the input.
C25_MergesortStable ==
    /\ SortReturned
    /\ call.name = "mergesort"
    /\ outcome.status = "ok"
    => KeepsInputOrder

\* The same for the ascending direction only.
MergesortStableAscending == call.reverse \/ C25_MergesortStable


(***************************************************************************)
(* Binary search.                                                          *)
(***************************************************************************)
\* The list that the binary search of the call bisects.
Bisected == sorted_receipts(receipts, call.input, call.field)

\* The text that binary search reads at place p of the bisected list,
\* lower-cased.
LowerAt(p) ==
    lower(binary_get_field_value(receipts[Bisected[p]], call.field).s)

\* C26: the list that binary search bisects is in ascending order of the
\* lower-cased texts of the field, the order in which the query is
\* compared with the text in the middle.
C26_BisectedInLowerOrder ==
    SearchReturned("binary") =>
        \A p \in 1..(Len(Bisected) - 1) : ~str_lt(LowerAt(p + 1), LowerAt(p))

\* The same for the fields whose texts have no capital letter.
NoCapital ==
    \A p \in 1..Len(Bisected) :
        LowerAt(p)
            = binary_get_field_value(receipts[Bisected[p]], call.field).s
BisectedInOrderWithoutCapitals == NoCapital => C26_BisectedInLowerOrder


\* The places of the bisected list whose text contains the query.
Matching == {p \in 1..Len(Bisected) : contains(LowerAt(p), lower(call.query))}

\* The places of the bisected list whose record was returned.
ReturnedPlaces ==
    {p \in 1..Len(Bisected) :
        \E i \in 1..Len(outcome.list) : outcome.list[i] = Bisected[p]}

\* What linear search returns for the arguments of the call.
LinearResult ==
    _linear_search(receipts, call.input, call.query, call.field).list

\* C27: every record that binary search returns is returned by linear
\* search for the same arguments, none is returned twice, and the returned
\* records are one run of the sorted copy: places next to each other that
\* all match, with no match on either side of the run.
C27_BinaryRun ==
    SearchReturned("binary") =>
        LET run(returned, matching, linear) ==
                /\ \A i \in 1..Len(outcome.list) :
                       \E j \in 1..Len(linear) : linear[j] = outcome.list[i]
                /\ \A i, j \in 1..Len(outcome.list) :
                       outcome.list[i] = outcome.list[j] => i = j
                /\ Cardinality(returned) = Len(outcome.list)
                /\ \A p, q \in returned : \A r \in p..q : r \in returned
                /\ returned \subseteq matching
                /\ \A p \in returned :
                       /\ (p - 1) \in matching => (p - 1) \in returned
                       /\ (p + 1) \in matching => (p + 1) \in returned
        IN  /\ outcome.status = "ok"
            /\ run(ReturnedPlaces, Matching, LinearResult)

\* Four records that all match: the middle, its neighbour on the left and
\* its two neighbours on the right are returned.
C27_Witness ==
    /\ SearchReturned("binary")
    /\ Len(call.input) = 4
    /\ Matching = 1..4
    /\ outcome.list = <<Bisected[2], Bisected[1], Bisected[3], Bisected[4]>>

\* Binary search returned less than linear search: a run of one record,
\* with another match further on in the sorted copy.
BinaryMissesWitness ==
    /\ SearchReturned("binary")
    /\ Len(outcome.list) = 1
    /\ Len(LinearResult) = 2

(***************************************************************************)
(* C28: fuzzy searches one after another over the same list.               *)
(***************************************************************************)
\* The similarity of record x to the query of the call that is returning,
\* on the field of that call, from the record as it was before the call.
FreshScore(x) ==
    similarity(call'.query, to_str(dict_get(receipts[x], call'.field)))

\* The step is a fuzzy search call that returns.
FuzzyCallReturns ==
    /\ pc' = "returned"
    /\ call'.api = "search"
    /\ call'.name = "fuzzy"

\* C28: in every fuzzy search call of a sequence over the same list, each
\* returned record carries the similarity of this call's query and field,
\* the result is in descending order of these similarities, and the
\* records that are not returned are left as they were.
C28_ScoresOfThisCall ==
    [][FuzzyCallReturns =>
        /\ outcome'.status = "ok"
        /\ Len(receipts') = Len(receipts)
        /\ \A k \in 1..Len(outcome'.list) :
               receipts'[outcome'.list[k]] =
                   [receipts[outcome'.list[k]] EXCEPT
                       !.similarity_score = FreshScore(outcome'.list[k])]
        /\ \A i, j \in 1..Len(outcome'.list) :
               i < j => ~lt(FreshScore(outcome'.list[i]),
                            FreshScore(outcome'.list[j]))
        /\ \A x \in 1..Len(receipts) :
               (\A k \in 1..Len(outcome'.list) : outcome'.list[k] # x)
                   => receipts'[x] = receipts[x]]_vars

\* A later fuzzy search has returned the two records in the order opposite
\* to the one of the call before it, with different scores.
C28_Witness ==
    /\ pc = "returned"
    /\ call.name = "fuzzy"
    /\ prev.status = "ok"
    /\ prev.list = <<2, 1>>
    /\ outcome.list = <<1, 2>>
    /\ receipts[1].similarity_score # receipts[2].similarity_score

\* A later fuzzy search has returned one record and not the other, which
\* still carries the score of the call before.
LeftScoreWitness ==
    /\ pc = "returned"
    /\ call.name = "fuzzy"
    /\ prev.status = "ok"
    /\ outcome.list = <<2>>
    /\ receipts[1].similarity_score.t = "num"

(***************************************************************************)
(* C29: the edit distance and the similarity of fuzzy search.              *)
(***************************************************************************)
\* The Levenshtein distance by its recurrence: drop the first character of
\* s (a deletion), of t (an insertion), or of both (a substitution when
\* they differ), each at cost 1.
RECURSIVE Levenshtein(_, _)
Levenshtein(s, t) ==
    IF Len(s) = 0 THEN Len(t)
    ELSE IF Len(t) = 0 THEN Len(s)
    ELSE min2(Levenshtein(Tail(s), t) + 1,
              min2(Levenshtein(s, Tail(t)) + 1,
                   Levenshtein(Tail(s), Tail(t))
                     + (IF Head(s) = Head(t) THEN 0 ELSE 1)))

\* What the helper returns for s1 and s2 is the classic distance with the
\* properties that follow from it.
IsClassicDistance(s1, s2) ==
    LET distance == levenshtein_distance(s1, s2)
    IN  /\ distance = Levenshtein(s1, s2)
        /\ distance = levenshtein_distance(s2, s1)
        /\ distance = 0 <=> s1 = s2
        /\ Len(s1) = 0 => distance = Len(s2)
        /\ Len(s2) = 0 => distance = Len(s1)
        /\ distance <= max2(Len(s1), Len(s2))

\* sim is 1 - Levenshtein(lowered s1, lowered s2) / the longer length, or 1
\* for two empty texts; it lies in [0, 1] and is 1 exactly when the texts
\* are equal ignoring case.
IsSimilarityOf(sim, s1, s2) ==
    LET max_len == max2(Len(s1), Len(s2))
    IN  /\ sim.t = "num"
        /\ sim.n * max_len
             = (max_len - Levenshtein(lower(s1), lower(s2))) * sim.d
        /\ max_len = 0 => sim = Num(1)
        /\ ~lt(sim, Num(0)) /\ ~lt(Num(1), sim)
        /\ sim = Num(1) <=> lower(s1) = lower(s2)

\* C29: for every pair of texts up to MaxDistanceLen characters the helper
\* of fuzzy search returns the classic Levenshtein distance (symmetric, 0
\* exactly for equal texts, the other length when one text is empty, at
\* most the longer length), and the similarity fuzzy search assigns lies
\* in [0, 1] and is 1 exactly for texts equal ignoring case.
C29_ClassicLevenshtein ==
    (SearchReturned("fuzzy") /\ call.kwargs.threshold = Num(0)
     /\ call.field = "vendor") =>
        /\ outcome.status = "ok"
        /\ \A x \in 1..Len(receipts) :
               receipts[x].vendor.t = "str" =>
                   /\ IsClassicDistance(call.query, receipts[x].vendor.s)
                   /\ IsClassicDistance(lower(call.query),
                                        lower(receipts[x].vendor.s))
                   /\ IsSimilarityOf(receipts[x].similarity_score,
                                     call.query, receipts[x].vendor.s)

\* The texts differ in the case of their letters only: the distance of the
\* two is 2 and their similarity is 1.
C29_Witness ==
    /\ SearchReturned("fuzzy")
    /\ call.query = <<"A", "b", "a">>
    /\ receipts[1].vendor = Str(<<"a", "b", "A">>)
    /\ levenshtein_distance(call.query, receipts[1].vendor.s) = 2
    /\ receipts[1].similarity_score = Num(1)

\* Texts of different lengths whose distance is the longer length: the
\* similarity is 0.
NothingInCommonWitness ==
    /\ SearchReturned("fuzzy")
    /\ call.query = <<"b", "b", "b">>
    /\ receipts[1].vendor = Str(<<"a", "a">>)
    /\ levenshtein_distance(call.query, receipts[1].vendor.s) = 3
    /\ receipts[1].similarity_score = Num(0)

(***************************************************************************)
(* C30: the value of a field of a dict record.                             *)
(***************************************************************************)
\* A call of linear search, of binary search or of one of the four sorts
\* has returned or raised.
ReadsByAttribute ==
    /\ pc = "returned"
    /\ \/ call.api = "search" /\ call.name \in {"linear", "binary"}
       \/ call.api = "sort" /\ call.name \in SortRegistry

\* For the dict receipt the three readers use its entry under field, or ''
\* where the key is absent: the sorts the entry itself, binary search its
\* text and linear search its text lower-cased.
EntryIsUsed(receipt, field) ==
    /\ get_field_value(receipt, field) = dict_get(receipt, field)
    /\ binary_get_field_value(receipt, field)
         = Str(to_str(dict_get(receipt, field)))
    /\ linear_field_value(receipt, field)
         = lower(to_str(dict_get(receipt, field)))

\* C30: for a dict record, the value that linear search, binary search and
\* the four sorts use for a field is the dict's entry under that key, or ''
\* when the key is absent, also for a field whose name is the name of an
\* attribute of dict, such as 'items'.
C30_EntryUnderKey ==
    ReadsByAttribute =>
        \A x \in 1..Len(receipts) :
            receipts[x].style = "dict" => EntryIsUsed(receipts[x], call.field)

\* For a field whose name is not the name of an attribute of dict, the
\* value used is the entry.
EntryUnderPlainKey ==
    (ReadsByAttribute /\ call.field \notin DictAttributes) =>
        \A x \in 1..Len(receipts) :
            receipts[x].style = "dict" => EntryIsUsed(receipts[x], call.field)

\* A sort or a search of a dict record has read a field with a plain name.
EntryUnderPlainKeyWitness ==
    /\ ReadsByAttribute
    /\ call.field = "vendor"
    /\ Len(receipts) > 0
    /\ receipts[1].style = "dict"

====
